---------------------------- MODULE Spec2Model ----------------------------
(***************************************************************************)
(* State-machine model of the triple-car engine sound simulation           *)
(* (src/Main_REV3.py): TripleCarSystem, the M4 / Supra / Hellcat engine    *)
(* simulations and their sound managers.                                   *)
(*                                                                         *)
(* Units.  Time is in milliseconds, throttle and volumes in thousandths    *)
(* (0.70 is 700), RPM in revolutions per minute.  The program reads the    *)
(* wall clock (time.time()) and compares it with stored time stamps; the   *)
(* model stores each time stamp relative to the clock of the current loop  *)
(* iteration (an age, or a remaining time) and saturates it just past the  *)
(* largest threshold it is compared with, which leaves every comparison    *)
(* of the program unchanged.                                               *)
(*                                                                         *)
(* A mixer channel is [sound, rem]: the clip it plays ("none" when idle)   *)
(* and the milliseconds left before it stops by itself (Loop: never).      *)
(***************************************************************************)
EXTENDS Integers, Sequences, FiniteSets

VARIABLES sys, m4, m4sm, supra, suprasm, hellcat, hellcatsm, env

vars == <<sys, m4, m4sm, supra, suprasm, hellcat, hellcatsm, env>>

---------------------------------------------------------------------------
(* Program constants (src/Main_REV3.py), in the model's units *)

THROTTLE_DEADZONE_LOW == 50
THROTTLE_SMOOTHING_WINDOW_SIZE == 5
BUTTON_LONG_PRESS_TIME == 2000
BUTTON_DEBOUNCE_TIME == 100
M4_SUSTAINED_100_THROTTLE_TIME == 1500
M4_GESTURE_WINDOW_TIME == 750
M4_FADE_OUT_MS == 300
M4_CROSSFADE_DURATION_MS == 500
M4_IDLE_TRANSITION_SPEED == 2500
M4_FULL_ACCEL_RESET_IDLE_TIME == 3000
M4_NORMAL_IDLE_VOLUME == 700
M4_LOW_IDLE_VOLUME_DURING_SFX == 150
M4_VERY_LOW_IDLE_VOLUME_DURING_LAUNCH == 50
M4_LAUNCH_CONTROL_THROTTLE_MIN == 550
M4_LAUNCH_CONTROL_THROTTLE_MAX == 850
M4_LAUNCH_CONTROL_HOLD_DURATION == 500
M4_GESTURE_RETRIGGER_LOCKOUT == 300
M4_ACCELERATION_SOUND_OFFSET == 500
M4_RPM_IDLE == 800
M4_RPM_DECAY_RATE_PER_SEC == 1500
M4_RPM_DECAY_COOLDOWN_AFTER_REV == 100
M4_RPM_RESET_TO_IDLE_THRESHOLD_TIME == 6000
SUPRA_NORMAL_IDLE_VOLUME == 700
SUPRA_LOW_IDLE_VOLUME_DURING_REV == 200
SUPRA_REV_GESTURE_WINDOW_TIME == 750
SUPRA_REV_RETRIGGER_LOCKOUT == 500
SUPRA_CLIP_OVERLAP_PREVENTION_TIME == 200
SUPRA_PRE_ACCEL_DELAY == 150
SUPRA_CROSSFADE_DURATION_MS == 800
(* the volumes of the driving voices are in hundred-thousandths *)
MASTER_ENGINE_VOL == 2000
SUPRA_IDLE_TRANSITION_SPEED == 2500
SUPRA_CRUISE_TRANSITION_DELAY == 750
SUPRA_HIGHWAY_CRUISE_THRESHOLD == 900
SUPRA_EMA_ALPHA_TENTHS == 3
SUPRA_RPM_IDLE == 900
SUPRA_RPM_DECAY_RATE_PER_SEC == 1200
SUPRA_RPM_DECAY_COOLDOWN_AFTER_REV == 100
SUPRA_RPM_RESET_TO_IDLE_THRESHOLD_TIME == 6000
HELLCAT_NORMAL_IDLE_VOLUME == 700
HELLCAT_LOW_IDLE_VOLUME_DURING_SHIFT == 300
HELLCAT_THROTTLE_IDLE_THRESHOLD == 50
HELLCAT_RPM_ACCEL_BASE == 1200
HELLCAT_RPM_DECAY_COAST == 2000
HELLCAT_RPM_THROTTLE_LIFT_DECAY == 3500
HELLCAT_IDLE_RPM == 750
HELLCAT_REDLINE_RPM == 6200
HELLCAT_AUDIO_INERTIA_SPEED == 3000
HELLCAT_MIN_SHIFT_INTERVAL == 2500
HELLCAT_EMA_ALPHA_TENTHS == 2
HELLCAT_REV_GESTURE_TIMEOUT == 1000
HELLCAT_REV_LOCKOUT == 500

(* Bounds of the model: the loop periods fed, and the lengths of the clips *)
Dt == 50
MaxMoves == 3
MaxPresses == 1
SettleTicks == 65
SwitchTicks == 17
PullTicks == 55
MaxBlipMoves == 3
MaxPatience == 4
MaxRepeatPresses == 2
MaxTaps == 5
MaxGearMoves == 1
MaxQueuedMoves == 1
MaxButtonPresses == 2
MaxHeldTicks == 41
ScenarioEnd == 1500
MaxReads == 5
MaxWatchMoves == 2
MaxNoiseMoves == 2
MaxStartMoves == 2
MaxPlays == 2
PrimeTicks == 12
FloorTicks == 34
FifthTicks == 38
LockoutTicks == 11
MaxWait == 1
LongRevLen == 2300
StarterLen == 200
RevLen == 400
EngageLen == 150
AccelLen == 600
DecelLen == 300
SupraPullLen == 900
HellcatRevLen == 600
ShiftLen == 300
RoarLen == 400

Min(a, b) == IF a < b THEN a ELSE b
Max(a, b) == IF a > b THEN a ELSE b
Abs(a) == IF a < 0 THEN -a ELSE a

---------------------------------------------------------------------------
(* pygame.mixer.Channel *)

Loop == -1
Silent == [sound |-> "none", rem |-> 0]

Busy(ch) == ch.sound # "none"

(* Channel.play(sound, loops): replaces whatever the channel carried *)
Playing(sound, len) == [sound |-> sound, rem |-> len]

(* Channel.fadeout(ms): the channel stops once the fade is over *)
FadeOut(ch, ms) ==
    IF ~Busy(ch) THEN ch
    ELSE IF ms <= 0 THEN Silent
    ELSE [ch EXCEPT !.rem = IF ch.rem = Loop THEN ms ELSE Min(ch.rem, ms)]

(* the audio thread: dt more milliseconds of playback *)
AgeChannel(ch, dt) ==
    IF ~Busy(ch) \/ ch.rem = Loop THEN ch
    ELSE IF ch.rem > dt THEN [ch EXCEPT !.rem = ch.rem - dt]
    ELSE Silent

(* an age: milliseconds since a time stamp, saturated at cap *)
Older(age, dt, cap) == Min(age + dt, cap)
(* a deadline: milliseconds until a time stamp, 0 once it has passed *)
Nearer(left, dt) == Max(left - dt, 0)

---------------------------------------------------------------------------
(* M4SoundManager.  A manager is a record; every method is an operator     *)
(* from the manager before the call to the manager after it.  The field    *)
(* started is an observation, not program state: the clips whose play()    *)
(* was called during the current loop iteration.                           *)

M4_SOUND_KEYS ==
    {"idle", "rev_stage1", "rev_stage2", "rev_stage3", "rev_stage4",
     "accel_gears", "cruising", "decel_downshifts", "starter",
     "launch_control_engage", "launch_control_hold_loop"}

M4_REV_KEYS == {"rev_stage1", "rev_stage2", "rev_stage3", "rev_stage4"}
M4_LONG_KEYS == {"accel_gears", "cruising", "decel_downshifts"}

(* sound.get_length() of the clips that are played once *)
M4ClipLen(key) ==
    CASE key = "starter" -> StarterLen
      [] key \in M4_REV_KEYS -> RevLen
      [] key = "launch_control_engage" -> EngageLen
      [] key = "accel_gears" -> AccelLen
      [] key = "decel_downshifts" -> DecelLen
      [] OTHER -> Loop

M4SoundManager_init(loaded) ==
    [sounds |-> loaded,
     channel_idle |-> Silent,
     channel_turbo_limiter_sfx |-> Silent,
     channel_staged_rev |-> Silent,
     channel_long_A |-> Silent,
     channel_long_B |-> Silent,
     idle_target_volume |-> M4_NORMAL_IDLE_VOLUME,
     idle_current_volume |-> M4_NORMAL_IDLE_VOLUME,
     idle_is_fading |-> FALSE,
     waiting_for_launch_hold_loop |-> FALSE,
     launch_control_sounds_active |-> FALSE,
     just_switched_to_lc_hold |-> FALSE,
     active_long_channel |-> "A",
     transitioning_long_sound |-> FALSE,
     transition_start_time |-> M4_CROSSFADE_DURATION_MS,
     pending_offset_sounds |-> << >>,
     started |-> {}]

(* self.sounds.get(key): "none" stands for None *)
M4Sound(s, key) == IF key \in s.sounds THEN key ELSE "none"

M4ActiveLong(s) ==
    IF s.active_long_channel = "A" THEN s.channel_long_A ELSE s.channel_long_B

M4PlayOnActiveLong(s, key, loops) ==
    LET len == IF loops = Loop THEN Loop ELSE M4ClipLen(key)
        t == [s EXCEPT !.started = @ \cup {key}]
    IN  IF s.active_long_channel = "A"
        THEN [t EXCEPT !.channel_long_A = Playing(key, len)]
        ELSE [t EXCEPT !.channel_long_B = Playing(key, len)]

M4PlaySfx(s, key, len) ==
    [s EXCEPT !.channel_turbo_limiter_sfx = Playing(key, len),
              !.started = @ \cup {key}]

(* the pending_offset_sounds loop of update(): entries whose offset has    *)
(* elapsed are played in list order on the active long channel and removed *)
M4FirePendingOffsetSounds(s) ==
    LET p == s.pending_offset_sounds
        IsLeft(x) == x.due > 0
        IsPlayed(x) == x.due = 0 /\ M4Sound(s, x.sound_key) # "none"
        fired == SelectSeq(p, IsPlayed)
        t == [s EXCEPT !.pending_offset_sounds = SelectSeq(p, IsLeft)]
    IN  IF fired = << >> THEN t
        ELSE LET last == fired[Len(fired)]
                 u == [t EXCEPT !.started =
                          @ \cup {fired[i].sound_key : i \in 1..Len(fired)}]
             IN  M4PlayOnActiveLong(u, last.sound_key, last.loops)

(* M4SoundManager_update starting the hold loop while the engage clip plays *)
M4SoundManager_update_early(s0) ==
    LET s1 == M4FirePendingOffsetSounds(
                  [s0 EXCEPT !.just_switched_to_lc_hold = FALSE])
        lc_engage_sound == M4Sound(s1, "launch_control_engage")
        lc_hold_sound == M4Sound(s1, "launch_control_hold_loop")
        sfx == s1.channel_turbo_limiter_sfx
        s2 == IF s1.waiting_for_launch_hold_loop
              THEN IF lc_hold_sound # "none"
                   THEN [M4PlaySfx(s1, "launch_control_hold_loop", Loop)
                            EXCEPT !.just_switched_to_lc_hold = TRUE,
                                   !.waiting_for_launch_hold_loop = FALSE]
                   ELSE [s1 EXCEPT !.launch_control_sounds_active = FALSE,
                                   !.waiting_for_launch_hold_loop = FALSE]
              ELSE s1
        now == s2.channel_turbo_limiter_sfx
    IN  IF s2.launch_control_sounds_active /\ ~s2.just_switched_to_lc_hold
           /\ ~s2.waiting_for_launch_hold_loop
           /\ (~Busy(now) \/ (now.sound # lc_engage_sound
                              /\ now.sound # lc_hold_sound))
        THEN [s2 EXCEPT !.launch_control_sounds_active = FALSE]
        ELSE s2

M4SoundManager_update(s0) ==
    LET s1 == M4FirePendingOffsetSounds(
                  [s0 EXCEPT !.just_switched_to_lc_hold = FALSE])
        lc_engage_sound == M4Sound(s1, "launch_control_engage")
        lc_hold_sound == M4Sound(s1, "launch_control_hold_loop")
        sfx == s1.channel_turbo_limiter_sfx
        s2 == IF s1.waiting_for_launch_hold_loop
                 /\ (~Busy(sfx) \/ sfx.sound # lc_engage_sound)
              THEN IF lc_hold_sound # "none"
                   THEN [M4PlaySfx(s1, "launch_control_hold_loop", Loop)
                            EXCEPT !.just_switched_to_lc_hold = TRUE,
                                   !.waiting_for_launch_hold_loop = FALSE]
                   ELSE [s1 EXCEPT !.launch_control_sounds_active = FALSE,
                                   !.waiting_for_launch_hold_loop = FALSE]
              ELSE s1
        now == s2.channel_turbo_limiter_sfx
    IN  IF s2.launch_control_sounds_active /\ ~s2.just_switched_to_lc_hold
           /\ ~s2.waiting_for_launch_hold_loop
           /\ (~Busy(now) \/ (now.sound # lc_engage_sound
                              /\ now.sound # lc_hold_sound))
        THEN [s2 EXCEPT !.launch_control_sounds_active = FALSE]
        ELSE s2

M4SoundManager_play_idle(s) ==
    IF M4Sound(s, "idle") = "none" THEN s
    ELSE [s EXCEPT
            !.channel_idle = IF ~Busy(@) \/ @.sound # "idle"
                             THEN Playing("idle", Loop) ELSE @,
            !.started = IF ~Busy(s.channel_idle)
                           \/ s.channel_idle.sound # "idle"
                        THEN @ \cup {"idle"} ELSE @,
            !.idle_current_volume = s.idle_target_volume,
            !.idle_is_fading = FALSE]

(* set_idle_target_volume taking the first step of the fade itself *)
M4SoundManager_set_idle_target_volume_stepping(s, target_volume, instant) ==
    LET target == Max(0, Min(1000, target_volume))
        step == (M4_IDLE_TRANSITION_SPEED * Dt) \div 1000
    IN  IF instant
        THEN [s EXCEPT !.idle_target_volume = target,
                       !.idle_current_volume = target,
                       !.idle_is_fading = FALSE]
        ELSE [s EXCEPT !.idle_target_volume = target,
                       !.idle_current_volume =
                           IF @ < target THEN Min(@ + step, target)
                           ELSE Max(@ - step, target),
                       !.idle_is_fading =
                           Abs(s.idle_current_volume - target) > 10]

(* volumes in thousandths: abs(a - b) > 0.01 is Abs(a - b) > 10 *)
M4SoundManager_set_idle_target_volume(s, target_volume, instant) ==
    LET target == Max(0, Min(1000, target_volume))
    IN  IF Abs(s.idle_target_volume - target) > 10 \/ instant
        THEN IF instant
             THEN [s EXCEPT !.idle_target_volume = target,
                            !.idle_current_volume = target,
                            !.idle_is_fading = FALSE]
             ELSE [s EXCEPT !.idle_target_volume = target,
                            !.idle_is_fading =
                                IF Abs(s.idle_current_volume - target) > 10
                                THEN TRUE ELSE @]
        ELSE s

M4SoundManager_update_idle_fade(s, dt) ==
    LET step == (M4_IDLE_TRANSITION_SPEED * dt) \div 1000
    IN  IF s.idle_is_fading /\ Busy(s.channel_idle)
        THEN IF Abs(s.idle_current_volume - s.idle_target_volume) < 10
             THEN [s EXCEPT !.idle_current_volume = s.idle_target_volume,
                            !.idle_is_fading = FALSE]
             ELSE IF s.idle_current_volume < s.idle_target_volume
             THEN [s EXCEPT !.idle_current_volume =
                       Min(@ + step, s.idle_target_volume)]
             ELSE [s EXCEPT !.idle_current_volume =
                       Max(@ - step, s.idle_target_volume)]
        ELSE s

M4_REV_STAGES ==
    << [key |-> "rev_stage1", rpm_peak |-> 3000],
       [key |-> "rev_stage2", rpm_peak |-> 5000],
       [key |-> "rev_stage3", rpm_peak |-> 7000],
       [key |-> "rev_stage4", rpm_peak |-> 8500] >>

(* the stage play_staged_rev plays (0: it returns None without playing) *)
M4SelectRevStage(s, current_rpm, gesture_peak_throttle) ==
    LET g == gesture_peak_throttle
        first ==
            IF 10 * current_rpm < 8 * M4_REV_STAGES[1].rpm_peak
            THEN (IF g < 400 THEN 1 ELSE IF g < 750 THEN 2 ELSE 3)
            ELSE IF 10 * current_rpm < 8 * M4_REV_STAGES[2].rpm_peak
            THEN (IF g < 500 THEN 2 ELSE 3)
            ELSE IF 10 * current_rpm < 9 * M4_REV_STAGES[3].rpm_peak
            THEN (IF g < 600 THEN 3 ELSE 4)
            ELSE 4
        above == {i \in 1..4 : M4_REV_STAGES[i].rpm_peak >= current_rpm}
        lowest == IF above = {} THEN 4
                  ELSE CHOOSE i \in above : \A j \in above : i <= j
    IN  IF Busy(s.channel_staged_rev) THEN 0
        ELSE IF g <= 100 /\ current_rpm > M4_RPM_IDLE + 500 THEN 0
        ELSE IF M4Sound(s, M4_REV_STAGES[first].key) = "none" THEN 0
        ELSE IF M4_REV_STAGES[first].rpm_peak < current_rpm /\ first # 4
        THEN lowest
        ELSE first

M4SoundManager_play_staged_rev(s, current_rpm, gesture_peak_throttle) ==
    LET k == M4SelectRevStage(s, current_rpm, gesture_peak_throttle)
    IN  IF k = 0 THEN s
        ELSE [s EXCEPT
                !.channel_staged_rev = Playing(M4_REV_STAGES[k].key, RevLen),
                !.started = @ \cup {M4_REV_STAGES[k].key}]

M4IsLcSound(s, ch) ==
    ch.sound = M4Sound(s, "launch_control_engage")
    \/ ch.sound = M4Sound(s, "launch_control_hold_loop")

M4SoundManager_play_starter_sfx(s) ==
    IF M4Sound(s, "starter") # "none"
       /\ (~Busy(s.channel_turbo_limiter_sfx)
           \/ ~M4IsLcSound(s, s.channel_turbo_limiter_sfx))
    THEN M4PlaySfx(s, "starter", StarterLen)
    ELSE s

M4SoundManager_stop_turbo_limiter_sfx(s) ==
    IF ~M4IsLcSound(s, s.channel_turbo_limiter_sfx)
    THEN [s EXCEPT !.channel_turbo_limiter_sfx = Silent]
    ELSE s

M4SoundManager_is_turbo_limiter_sfx_busy(s) ==
    Busy(s.channel_turbo_limiter_sfx)
    /\ ~M4IsLcSound(s, s.channel_turbo_limiter_sfx)

(* any_playful_sfx_active() not looking at the staged rev voice *)
M4SoundManager_any_playful_sfx_active_forgetful(s) ==
    /\ Busy(s.channel_turbo_limiter_sfx)
    /\ ~M4IsLcSound(s, s.channel_turbo_limiter_sfx)
    /\ s.channel_turbo_limiter_sfx.sound # M4Sound(s, "starter")

M4SoundManager_any_playful_sfx_active(s) ==
    \/ Busy(s.channel_staged_rev)
    \/ /\ Busy(s.channel_turbo_limiter_sfx)
       /\ ~M4IsLcSound(s, s.channel_turbo_limiter_sfx)
       /\ s.channel_turbo_limiter_sfx.sound # M4Sound(s, "starter")

M4SoundManager_stop_staged_rev_sound(s) ==
    [s EXCEPT !.channel_staged_rev = Silent]

(* play_launch_control_sequence() returns True exactly when one of the two *)
(* launch control clips is loaded                                          *)
M4LaunchControlSequencePlays(s) ==
    M4Sound(s, "launch_control_engage") # "none"
    \/ M4Sound(s, "launch_control_hold_loop") # "none"

M4SoundManager_play_launch_control_sequence(s) ==
    IF M4Sound(s, "launch_control_engage") # "none"
    THEN [M4PlaySfx(s, "launch_control_engage", EngageLen)
             EXCEPT !.waiting_for_launch_hold_loop = TRUE,
                    !.launch_control_sounds_active = TRUE,
                    !.just_switched_to_lc_hold = FALSE]
    ELSE IF M4Sound(s, "launch_control_hold_loop") # "none"
    THEN [M4PlaySfx(s, "launch_control_hold_loop", Loop)
             EXCEPT !.waiting_for_launch_hold_loop = FALSE,
                    !.launch_control_sounds_active = TRUE,
                    !.just_switched_to_lc_hold = TRUE]
    ELSE [s EXCEPT !.launch_control_sounds_active = FALSE]

(* stop_launch_control_sequence leaving launch_control_sounds_active set *)
M4SoundManager_stop_launch_control_sequence_keeping(s, fade_ms) ==
    [s EXCEPT
        !.channel_turbo_limiter_sfx =
            IF Busy(@) /\ M4IsLcSound(s, @) THEN FadeOut(@, fade_ms) ELSE @,
        !.waiting_for_launch_hold_loop = FALSE,
        !.just_switched_to_lc_hold = FALSE]

M4SoundManager_stop_launch_control_sequence(s, fade_ms) ==
    [s EXCEPT
        !.channel_turbo_limiter_sfx =
            IF Busy(@) /\ M4IsLcSound(s, @) THEN FadeOut(@, fade_ms) ELSE @,
        !.waiting_for_launch_hold_loop = FALSE,
        !.launch_control_sounds_active = FALSE,
        !.just_switched_to_lc_hold = FALSE]

M4SoundManager_is_launch_control_active(s) ==
    s.launch_control_sounds_active \/ s.waiting_for_launch_hold_loop

(* start_offset > 0 schedules the clip; due is the time left until        *)
(* start_time + offset_duration, start_time being read after slept ms     *)
M4SoundManager_play_long_sequence(s, sound_key, loops, transition_from_other, start_offset, slept) ==
    IF M4Sound(s, sound_key) = "none"
    THEN [s EXCEPT !.channel_long_A = Silent, !.channel_long_B = Silent,
                   !.transitioning_long_sound = FALSE]
    ELSE IF start_offset > 0
    THEN [s EXCEPT !.pending_offset_sounds =
             Append(@, [sound_key |-> sound_key, due |-> start_offset + slept,
                        loops |-> loops])]
    ELSE IF ~transition_from_other
    THEN LET t == IF s.active_long_channel = "A"
                  THEN [s EXCEPT !.channel_long_B = Silent]
                  ELSE [s EXCEPT !.channel_long_A = Silent]
         IN  [M4PlayOnActiveLong(t, sound_key, loops)
                 EXCEPT !.transitioning_long_sound = FALSE]
    ELSE LET t == IF s.active_long_channel = "A"
                  THEN [s EXCEPT
                          !.channel_long_A = FadeOut(@, M4_CROSSFADE_DURATION_MS),
                          !.active_long_channel = "B"]
                  ELSE [s EXCEPT
                          !.channel_long_B = FadeOut(@, M4_CROSSFADE_DURATION_MS),
                          !.active_long_channel = "A"]
         IN  [M4PlayOnActiveLong(t, sound_key, loops)
                 EXCEPT !.transitioning_long_sound = TRUE,
                        !.transition_start_time = 0]

M4SoundManager_update_long_sequence_crossfade(s) ==
    IF s.transitioning_long_sound
       /\ s.transition_start_time >= M4_CROSSFADE_DURATION_MS
    THEN [s EXCEPT !.transitioning_long_sound = FALSE]
    ELSE s

M4SoundManager_stop_long_sequence(s, fade_ms) ==
    [s EXCEPT !.channel_long_A = FadeOut(@, fade_ms),
              !.channel_long_B = FadeOut(@, fade_ms),
              !.transitioning_long_sound = FALSE]

M4SoundManager_is_long_sequence_busy(s) ==
    Busy(s.channel_long_A) \/ Busy(s.channel_long_B)
    \/ s.transitioning_long_sound

M4SoundManager_stop_all_sounds(s) ==
    [s EXCEPT !.channel_idle = Silent,
              !.channel_turbo_limiter_sfx = Silent,
              !.channel_long_A = Silent,
              !.channel_long_B = Silent,
              !.channel_staged_rev = Silent,
              !.transitioning_long_sound = FALSE,
              !.launch_control_sounds_active = FALSE,
              !.waiting_for_launch_hold_loop = FALSE,
              !.idle_is_fading = FALSE]

M4SoundManager_fade_out_all_sounds(s, fade_ms) ==
    [s EXCEPT !.channel_idle = FadeOut(@, fade_ms),
              !.channel_turbo_limiter_sfx = FadeOut(@, fade_ms),
              !.channel_long_A = FadeOut(@, fade_ms),
              !.channel_long_B = FadeOut(@, fade_ms),
              !.channel_staged_rev = FadeOut(@, fade_ms)]

(* dt milliseconds of wall clock and of playback seen from the manager *)
M4SoundManager_elapse(s, dt) ==
    [s EXCEPT !.channel_idle = AgeChannel(@, dt),
              !.channel_turbo_limiter_sfx = AgeChannel(@, dt),
              !.channel_long_A = AgeChannel(@, dt),
              !.channel_long_B = AgeChannel(@, dt),
              !.channel_staged_rev = AgeChannel(@, dt),
              !.transition_start_time = Older(@, dt, M4_CROSSFADE_DURATION_MS),
              !.pending_offset_sounds =
                  [i \in DOMAIN @ |-> [@[i] EXCEPT !.due = Nearer(@, dt)]],
              !.started = {}]

---------------------------------------------------------------------------
(* M4EngineSimulation.  An engine and its sound manager travel together as *)
(* a pair [e, s].  gesture_start_time and last_rev_sound_finish_time hold  *)
(* the age of the time stamp (negative: it lies in the future),            *)
(* gesture_lockout_until_time the time left until it.  throttle_history    *)
(* keeps the last two samples, the only ones the program reads.            *)

M4EngineSimulation_init ==
    [state |-> "ENGINE_OFF",
     current_throttle |-> 0,
     throttle_history |-> << >>,
     peak_throttle_in_gesture |-> 0,
     gesture_start_time |-> M4_GESTURE_WINDOW_TIME + 1,
     in_potential_gesture |-> FALSE,
     gesture_lockout_until_time |-> 0,
     time_at_100_throttle |-> 0,
     time_in_idle |-> 0,
     played_full_accel_sequence_recently |-> FALSE,
     time_in_launch_control_range |-> 0,
     simulated_rpm |-> M4_RPM_IDLE,
     last_rev_sound_finish_time |-> M4_RPM_RESET_TO_IDLE_THRESHOLD_TIME + 1]

Pair(e, s) == [e |-> e, s |-> s]

(* deque.append on the two samples kept *)
HistoryAppend(h, x) == IF Len(h) < 2 THEN Append(h, x) ELSE << h[2], x >>

M4EngineSimulation_elapse(e, dt) ==
    [e EXCEPT
        !.gesture_start_time = Older(@, dt, M4_GESTURE_WINDOW_TIME + 1),
        !.gesture_lockout_until_time = Nearer(@, dt),
        !.last_rev_sound_finish_time =
            Older(@, dt, M4_RPM_RESET_TO_IDLE_THRESHOLD_TIME + 1)]

M4InLcRange(thr) ==
    M4_LAUNCH_CONTROL_THROTTLE_MIN < thr /\ thr < M4_LAUNCH_CONTROL_THROTTLE_MAX

(* M4EngineSimulation_check_playful_gestures with no timeout of the window *)
M4EngineSimulation_check_playful_gestures_untimed(e, s, old_throttle) ==
    IF M4SoundManager_is_long_sequence_busy(s) \/ e.state = "LAUNCH_HOLD"
       \/ M4SoundManager_is_launch_control_active(s)
    THEN Pair([e EXCEPT !.in_potential_gesture = FALSE], s)
    ELSE
    LET h == e.throttle_history
        is_rising_from_idle ==
            Len(h) < 2 \/ h[Len(h) - 1] <= THROTTLE_DEADZONE_LOW
        e1 == IF ~e.in_potential_gesture /\ e.gesture_lockout_until_time = 0
                 /\ e.current_throttle > THROTTLE_DEADZONE_LOW
                 /\ is_rising_from_idle
              THEN [e EXCEPT !.in_potential_gesture = TRUE,
                             !.gesture_start_time = 0,
                             !.peak_throttle_in_gesture = e.current_throttle]
              ELSE e
        e2 == [e1 EXCEPT !.peak_throttle_in_gesture =
                            Max(@, e1.current_throttle)]
        peak == e2.peak_throttle_in_gesture
        is_falling_after_peak ==
            /\ 10 * e2.current_throttle < 7 * peak
            /\ e2.current_throttle < old_throttle
            /\ 2 * e2.current_throttle <= 3 * THROTTLE_DEADZONE_LOW
        k == M4SelectRevStage(s, e2.simulated_rpm, peak)
    IN  IF ~e1.in_potential_gesture THEN Pair(e1, s)
        ELSE IF is_falling_after_peak /\ peak > THROTTLE_DEADZONE_LOW + 20
        THEN LET e3 == [e2 EXCEPT
                          !.in_potential_gesture = FALSE,
                          !.gesture_lockout_until_time =
                              M4_GESTURE_RETRIGGER_LOCKOUT]
             IN  IF k = 0 THEN Pair(e3, s)
                 ELSE Pair(
                     [e3 EXCEPT
                        !.simulated_rpm = M4_REV_STAGES[k].rpm_peak,
                        !.last_rev_sound_finish_time = 0 - RevLen,
                        !.state = IF @ \in {"IDLING", "PLAYFUL_REV"}
                                  THEN "PLAYFUL_REV" ELSE @,
                        !.time_at_100_throttle = 0],
                     M4SoundManager_set_idle_target_volume(
                        M4SoundManager_play_staged_rev(s, e2.simulated_rpm,
                                                       peak),
                        M4_LOW_IDLE_VOLUME_DURING_SFX, FALSE))
        ELSE Pair(e2, s)

M4EngineSimulation_check_playful_gestures(e, s, old_throttle) ==
    IF M4SoundManager_is_long_sequence_busy(s) \/ e.state = "LAUNCH_HOLD"
       \/ M4SoundManager_is_launch_control_active(s)
    THEN Pair([e EXCEPT !.in_potential_gesture = FALSE], s)
    ELSE
    LET h == e.throttle_history
        is_rising_from_idle ==
            Len(h) < 2 \/ h[Len(h) - 1] <= THROTTLE_DEADZONE_LOW
        e1 == IF ~e.in_potential_gesture /\ e.gesture_lockout_until_time = 0
                 /\ e.current_throttle > THROTTLE_DEADZONE_LOW
                 /\ is_rising_from_idle
              THEN [e EXCEPT !.in_potential_gesture = TRUE,
                             !.gesture_start_time = 0,
                             !.peak_throttle_in_gesture = e.current_throttle]
              ELSE e
        e2 == [e1 EXCEPT !.peak_throttle_in_gesture =
                            Max(@, e1.current_throttle)]
        peak == e2.peak_throttle_in_gesture
        is_falling_after_peak ==
            /\ 10 * e2.current_throttle < 7 * peak
            /\ e2.current_throttle < old_throttle
            /\ 2 * e2.current_throttle <= 3 * THROTTLE_DEADZONE_LOW
        k == M4SelectRevStage(s, e2.simulated_rpm, peak)
    IN  IF ~e1.in_potential_gesture THEN Pair(e1, s)
        ELSE IF e2.gesture_start_time > M4_GESTURE_WINDOW_TIME
        THEN Pair([e2 EXCEPT !.in_potential_gesture = FALSE], s)
        ELSE IF is_falling_after_peak /\ peak > THROTTLE_DEADZONE_LOW + 20
        THEN LET e3 == [e2 EXCEPT
                          !.in_potential_gesture = FALSE,
                          !.gesture_lockout_until_time =
                              M4_GESTURE_RETRIGGER_LOCKOUT]
             IN  IF k = 0 THEN Pair(e3, s)
                 ELSE Pair(
                     [e3 EXCEPT
                        !.simulated_rpm = M4_REV_STAGES[k].rpm_peak,
                        !.last_rev_sound_finish_time = 0 - RevLen,
                        !.state = IF @ \in {"IDLING", "PLAYFUL_REV"}
                                  THEN "PLAYFUL_REV" ELSE @,
                        !.time_at_100_throttle = 0],
                     M4SoundManager_set_idle_target_volume(
                        M4SoundManager_play_staged_rev(s, e2.simulated_rpm,
                                                       peak),
                        M4_LOW_IDLE_VOLUME_DURING_SFX, FALSE))
        ELSE Pair(e2, s)

(* the launch control engagement of the IDLING / PLAYFUL_REV branch; the  *)
(* branch returns right after it                                          *)
M4EngageLaunchControl(e, s) ==
    LET s1 == M4SoundManager_play_launch_control_sequence(
                  M4SoundManager_stop_turbo_limiter_sfx(
                      M4SoundManager_stop_staged_rev_sound(s)))
        ok == M4LaunchControlSequencePlays(s)
    IN  Pair([e EXCEPT !.state = IF ok THEN "LAUNCH_HOLD" ELSE "IDLING",
                       !.time_in_launch_control_range = 0,
                       !.time_at_100_throttle = 0,
                       !.simulated_rpm = M4_RPM_IDLE,
                       !.last_rev_sound_finish_time = 0],
             IF ok
             THEN M4SoundManager_set_idle_target_volume(
                      s1, M4_VERY_LOW_IDLE_VOLUME_DURING_LAUNCH, TRUE)
             ELSE s1)

(* M4FullAccelCheck with the idle volume ramped down, not cut *)
M4FullAccelCheck_ramped(e, s, dt) ==
    IF e.current_throttle >= 980
    THEN LET t100 == Min(e.time_at_100_throttle + dt,
                         M4_SUSTAINED_100_THROTTLE_TIME)
         IN  IF t100 >= M4_SUSTAINED_100_THROTTLE_TIME
                /\ ~e.played_full_accel_sequence_recently
                /\ e.state \notin {"ACCELERATING", "LAUNCH_HOLD"}
             THEN Pair([e EXCEPT
                          !.state = "ACCELERATING",
                          !.played_full_accel_sequence_recently = TRUE,
                          !.time_at_100_throttle = 0,
                          !.simulated_rpm = M4_RPM_IDLE,
                          !.last_rev_sound_finish_time = 0],
                       M4SoundManager_play_long_sequence(
                          M4SoundManager_stop_turbo_limiter_sfx(
                            M4SoundManager_stop_staged_rev_sound(
                              M4SoundManager_stop_launch_control_sequence(
                                M4SoundManager_set_idle_target_volume(
                                    s, 0, FALSE),
                                50))),
                          "accel_gears", 0, FALSE,
                          M4_ACCELERATION_SOUND_OFFSET, 0))
             ELSE Pair([e EXCEPT !.time_at_100_throttle = t100], s)
    ELSE Pair([e EXCEPT !.time_at_100_throttle = 0], s)

(* the sustained full throttle check that ends the branch *)
M4FullAccelCheck(e, s, dt) ==
    IF e.current_throttle >= 980
    THEN LET t100 == Min(e.time_at_100_throttle + dt,
                         M4_SUSTAINED_100_THROTTLE_TIME)
         IN  IF t100 >= M4_SUSTAINED_100_THROTTLE_TIME
                /\ ~e.played_full_accel_sequence_recently
                /\ e.state \notin {"ACCELERATING", "LAUNCH_HOLD"}
             THEN Pair([e EXCEPT
                          !.state = "ACCELERATING",
                          !.played_full_accel_sequence_recently = TRUE,
                          !.time_at_100_throttle = 0,
                          !.simulated_rpm = M4_RPM_IDLE,
                          !.last_rev_sound_finish_time = 0],
                       M4SoundManager_play_long_sequence(
                          M4SoundManager_stop_turbo_limiter_sfx(
                            M4SoundManager_stop_staged_rev_sound(
                              M4SoundManager_stop_launch_control_sequence(
                                M4SoundManager_set_idle_target_volume(
                                    s, 0, TRUE),
                                50))),
                          "accel_gears", 0, FALSE,
                          M4_ACCELERATION_SOUND_OFFSET, 0))
             ELSE Pair([e EXCEPT !.time_at_100_throttle = t100], s)
    ELSE Pair([e EXCEPT !.time_at_100_throttle = 0], s)

(* M4EngineSimulation_idling forgetting the last full acceleration as     *)
(* soon as the M4 idles                                                   *)
M4EngineSimulation_idling_forgetful(e, s, dt, previous_throttle_this_frame) ==
    LET idle_time == Min(e.time_in_idle + dt,
                         M4_FULL_ACCEL_RESET_IDLE_TIME + 1)
        e1 == IF e.state = "IDLING"
              THEN [e EXCEPT
                      !.time_in_idle = idle_time,
                      !.played_full_accel_sequence_recently = FALSE]
              ELSE IF ~M4SoundManager_any_playful_sfx_active(s)
              THEN [e EXCEPT !.state = "IDLING", !.time_in_idle = 0]
              ELSE e
        s1 == IF e.state = "IDLING"
              THEN IF ~M4SoundManager_any_playful_sfx_active(s)
                      /\ ~M4SoundManager_is_launch_control_active(s)
                   THEN M4SoundManager_set_idle_target_volume(
                            s, M4_NORMAL_IDLE_VOLUME, FALSE)
                   ELSE s
              ELSE LET t == M4SoundManager_set_idle_target_volume(
                                s, M4_LOW_IDLE_VOLUME_DURING_SFX, FALSE)
                   IN  IF ~M4SoundManager_any_playful_sfx_active(t)
                       THEN M4SoundManager_set_idle_target_volume(
                                t, M4_NORMAL_IDLE_VOLUME, FALSE)
                       ELSE t
        in_range == M4InLcRange(e1.current_throttle)
        lc_time == Min(e1.time_in_launch_control_range + dt,
                       M4_LAUNCH_CONTROL_HOLD_DURATION)
        e2 == [e1 EXCEPT !.time_in_launch_control_range =
                            IF in_range THEN lc_time ELSE 0]
        Checked(g) == M4FullAccelCheck(g.e, g.s, dt)
    IN  IF in_range /\ lc_time >= M4_LAUNCH_CONTROL_HOLD_DURATION
           /\ ~M4SoundManager_is_launch_control_active(s1)
        THEN M4EngageLaunchControl(e2, s1)
        ELSE Checked(M4EngineSimulation_check_playful_gestures(
                         e2, s1, previous_throttle_this_frame))

M4EngineSimulation_idling(e, s, dt, previous_throttle_this_frame) ==
    LET idle_time == Min(e.time_in_idle + dt,
                         M4_FULL_ACCEL_RESET_IDLE_TIME + 1)
        e1 == IF e.state = "IDLING"
              THEN [e EXCEPT
                      !.time_in_idle = idle_time,
                      !.played_full_accel_sequence_recently =
                          IF idle_time > M4_FULL_ACCEL_RESET_IDLE_TIME
                          THEN FALSE ELSE @]
              ELSE IF ~M4SoundManager_any_playful_sfx_active(s)
              THEN [e EXCEPT !.state = "IDLING", !.time_in_idle = 0]
              ELSE e
        s1 == IF e.state = "IDLING"
              THEN IF ~M4SoundManager_any_playful_sfx_active(s)
                      /\ ~M4SoundManager_is_launch_control_active(s)
                   THEN M4SoundManager_set_idle_target_volume(
                            s, M4_NORMAL_IDLE_VOLUME, FALSE)
                   ELSE s
              ELSE LET t == M4SoundManager_set_idle_target_volume(
                                s, M4_LOW_IDLE_VOLUME_DURING_SFX, FALSE)
                   IN  IF ~M4SoundManager_any_playful_sfx_active(t)
                       THEN M4SoundManager_set_idle_target_volume(
                                t, M4_NORMAL_IDLE_VOLUME, FALSE)
                       ELSE t
        in_range == M4InLcRange(e1.current_throttle)
        lc_time == Min(e1.time_in_launch_control_range + dt,
                       M4_LAUNCH_CONTROL_HOLD_DURATION)
        e2 == [e1 EXCEPT !.time_in_launch_control_range =
                            IF in_range THEN lc_time ELSE 0]
        Checked(g) == M4FullAccelCheck(g.e, g.s, dt)
    IN  IF in_range /\ lc_time >= M4_LAUNCH_CONTROL_HOLD_DURATION
           /\ ~M4SoundManager_is_launch_control_active(s1)
        THEN M4EngageLaunchControl(e2, s1)
        ELSE Checked(M4EngineSimulation_check_playful_gestures(
                         e2, s1, previous_throttle_this_frame))

(* M4EngineSimulation_launch_hold leaving only once the throttle is out   *)
(* of the band and the launch sounds are over as well                     *)
M4EngineSimulation_launch_hold_lingering(e, s0) ==
    LET s == M4SoundManager_set_idle_target_volume(
                 s0, M4_VERY_LOW_IDLE_VOLUME_DURING_LAUNCH, TRUE)
    IN  IF e.current_throttle >= 980
        THEN Pair([e EXCEPT !.state = "ACCELERATING",
                            !.played_full_accel_sequence_recently = TRUE,
                            !.simulated_rpm = M4_RPM_IDLE,
                            !.last_rev_sound_finish_time = 0],
                  M4SoundManager_play_long_sequence(
                      M4SoundManager_set_idle_target_volume(
                          M4SoundManager_stop_launch_control_sequence(s, 0),
                          0, TRUE),
                      "accel_gears", 0, FALSE,
                      M4_ACCELERATION_SOUND_OFFSET, 0))
        ELSE IF ~M4InLcRange(e.current_throttle)
                /\ ~M4SoundManager_is_launch_control_active(s)
        THEN LET s1 == M4SoundManager_set_idle_target_volume(
                           M4SoundManager_stop_launch_control_sequence(
                               s, M4_FADE_OUT_MS \div 2),
                           M4_NORMAL_IDLE_VOLUME, FALSE)
             IN  Pair([e EXCEPT !.state = "IDLING",
                                !.time_in_idle = 0,
                                !.simulated_rpm = M4_RPM_IDLE,
                                !.last_rev_sound_finish_time = 0],
                      M4SoundManager_play_idle(s1))
        ELSE Pair(e, s)

M4EngineSimulation_launch_hold(e, s0) ==
    LET s == M4SoundManager_set_idle_target_volume(
                 s0, M4_VERY_LOW_IDLE_VOLUME_DURING_LAUNCH, TRUE)
    IN  IF e.current_throttle >= 980
        THEN Pair([e EXCEPT !.state = "ACCELERATING",
                            !.played_full_accel_sequence_recently = TRUE,
                            !.simulated_rpm = M4_RPM_IDLE,
                            !.last_rev_sound_finish_time = 0],
                  M4SoundManager_play_long_sequence(
                      M4SoundManager_set_idle_target_volume(
                          M4SoundManager_stop_launch_control_sequence(s, 0),
                          0, TRUE),
                      "accel_gears", 0, FALSE,
                      M4_ACCELERATION_SOUND_OFFSET, 0))
        ELSE IF ~M4InLcRange(e.current_throttle)
                \/ ~M4SoundManager_is_launch_control_active(s)
        THEN LET s1 == M4SoundManager_set_idle_target_volume(
                           M4SoundManager_stop_launch_control_sequence(
                               s, M4_FADE_OUT_MS \div 2),
                           M4_NORMAL_IDLE_VOLUME, FALSE)
             IN  Pair([e EXCEPT !.state = "IDLING",
                                !.time_in_idle = 0,
                                !.simulated_rpm = M4_RPM_IDLE,
                                !.last_rev_sound_finish_time = 0],
                      M4SoundManager_play_idle(s1))
        ELSE Pair(e, s)

(* time.sleep(0.05) between stop_long_sequence and play_long_sequence *)
M4_STOP_THEN_PLAY_SLEEP == 50

(* stop_long_sequence(fade_ms=100); time.sleep(0.05); play_long_sequence *)
M4StopThenPlay(s, sound_key, loops, start_offset) ==
    M4SoundManager_play_long_sequence(
        M4SoundManager_stop_long_sequence(s, 100),
        sound_key, loops, FALSE, start_offset, M4_STOP_THEN_PLAY_SLEEP)

(* M4EngineSimulation_engine_off keeping the throttle that started it *)
M4EngineSimulation_engine_off_live(e, s) ==
    IF e.current_throttle > THROTTLE_DEADZONE_LOW + 50
    THEN Pair([e EXCEPT !.state = "STARTING",
                        !.throttle_history = HistoryAppend(@, 0),
                        !.simulated_rpm = M4_RPM_IDLE,
                        !.last_rev_sound_finish_time = 0],
              M4SoundManager_play_starter_sfx(s))
    ELSE Pair(e, s)

M4EngineSimulation_engine_off(e, s) ==
    IF e.current_throttle > THROTTLE_DEADZONE_LOW + 50
    THEN Pair([e EXCEPT !.state = "STARTING",
                        !.current_throttle = 0,
                        !.throttle_history = HistoryAppend(@, 0),
                        !.simulated_rpm = M4_RPM_IDLE,
                        !.last_rev_sound_finish_time = 0],
              M4SoundManager_play_starter_sfx(s))
    ELSE Pair(e, s)

M4EngineSimulation_starting(e, s) ==
    IF ~M4SoundManager_is_turbo_limiter_sfx_busy(s)
       /\ ~M4SoundManager_is_launch_control_active(s)
    THEN Pair([e EXCEPT !.state = "IDLING",
                        !.time_in_idle = 0,
                        !.simulated_rpm = M4_RPM_IDLE,
                        !.last_rev_sound_finish_time = 0],
              M4SoundManager_play_idle(
                  M4SoundManager_set_idle_target_volume(
                      s, M4_NORMAL_IDLE_VOLUME, FALSE)))
    ELSE Pair(e, s)

M4EngineSimulation_accelerating(e, s0) ==
    LET s == M4SoundManager_set_idle_target_volume(s0, 0, TRUE)
    IN  IF e.current_throttle < 900
        THEN Pair([e EXCEPT !.state = "DECELERATING"],
                  M4StopThenPlay(s, "decel_downshifts", 0, 0))
        ELSE IF ~M4SoundManager_is_long_sequence_busy(s)
                /\ ~s.transitioning_long_sound
        THEN Pair([e EXCEPT !.state = "CRUISING"],
                  M4StopThenPlay(s, "cruising", Loop, 0))
        ELSE Pair(e, s)

M4EngineSimulation_cruising(e, s0) ==
    LET s == M4SoundManager_set_idle_target_volume(s0, 0, TRUE)
    IN  IF e.current_throttle < 900
        THEN Pair([e EXCEPT !.state = "DECELERATING"],
                  M4StopThenPlay(s, "decel_downshifts", 0, 0))
        ELSE Pair(e, s)

(* M4EngineSimulation_decelerating waiting for the deceleration clip to    *)
(* end before it accelerates again                                        *)
M4EngineSimulation_decelerating_waiting(e, s0) ==
    LET s == M4SoundManager_set_idle_target_volume(s0, 0, TRUE)
    IN  IF e.current_throttle >= 850
           /\ ~M4SoundManager_is_long_sequence_busy(s)
        THEN Pair([e EXCEPT !.state = "ACCELERATING",
                            !.played_full_accel_sequence_recently = TRUE],
                  M4StopThenPlay(s, "accel_gears", 0,
                                 M4_ACCELERATION_SOUND_OFFSET))
        ELSE IF ~M4SoundManager_is_long_sequence_busy(s)
                /\ ~s.transitioning_long_sound
        THEN Pair([e EXCEPT !.state = "IDLING",
                            !.time_in_idle = 0,
                            !.simulated_rpm = M4_RPM_IDLE,
                            !.last_rev_sound_finish_time = 0],
                  M4SoundManager_play_idle(
                      M4SoundManager_set_idle_target_volume(
                          s, M4_NORMAL_IDLE_VOLUME, FALSE)))
        ELSE Pair(e, s)

M4EngineSimulation_decelerating(e, s0) ==
    LET s == M4SoundManager_set_idle_target_volume(s0, 0, TRUE)
    IN  IF e.current_throttle >= 850
        THEN Pair([e EXCEPT !.state = "ACCELERATING",
                            !.played_full_accel_sequence_recently = TRUE],
                  M4StopThenPlay(s, "accel_gears", 0,
                                 M4_ACCELERATION_SOUND_OFFSET))
        ELSE IF ~M4SoundManager_is_long_sequence_busy(s)
                /\ ~s.transitioning_long_sound
        THEN Pair([e EXCEPT !.state = "IDLING",
                            !.time_in_idle = 0,
                            !.simulated_rpm = M4_RPM_IDLE,
                            !.last_rev_sound_finish_time = 0],
                  M4SoundManager_play_idle(
                      M4SoundManager_set_idle_target_volume(
                          s, M4_NORMAL_IDLE_VOLUME, FALSE)))
        ELSE Pair(e, s)

(* M4RpmDecay without the floor at the idle RPM *)
M4RpmDecay_undershoot(e, s, dt) ==
    LET is_rev_sound_playing == Busy(s.channel_staged_rev)
        decayed ==
            IF ~is_rev_sound_playing
               /\ e.last_rev_sound_finish_time > M4_RPM_DECAY_COOLDOWN_AFTER_REV
               /\ e.simulated_rpm > M4_RPM_IDLE
            THEN e.simulated_rpm
                   - (M4_RPM_DECAY_RATE_PER_SEC * dt) \div 1000
            ELSE e.simulated_rpm
    IN  IF ~is_rev_sound_playing
           /\ e.last_rev_sound_finish_time
                  > M4_RPM_RESET_TO_IDLE_THRESHOLD_TIME
        THEN M4_RPM_IDLE
        ELSE decayed

(* the RPM decay and reset that precede the state branches *)
M4RpmDecay(e, s, dt) ==
    LET is_rev_sound_playing == Busy(s.channel_staged_rev)
        decayed ==
            IF ~is_rev_sound_playing
               /\ e.last_rev_sound_finish_time > M4_RPM_DECAY_COOLDOWN_AFTER_REV
               /\ e.simulated_rpm > M4_RPM_IDLE
            THEN Max(M4_RPM_IDLE,
                     e.simulated_rpm
                       - (M4_RPM_DECAY_RATE_PER_SEC * dt) \div 1000)
            ELSE e.simulated_rpm
    IN  IF ~is_rev_sound_playing
           /\ e.last_rev_sound_finish_time
                  > M4_RPM_RESET_TO_IDLE_THRESHOLD_TIME
        THEN M4_RPM_IDLE
        ELSE decayed

M4EngineSimulation_update(e0, s0, dt, new_throttle_value) ==
    LET previous_throttle_this_frame == e0.current_throttle
        e1 == [e0 EXCEPT
                 !.current_throttle = new_throttle_value,
                 !.throttle_history = HistoryAppend(@, new_throttle_value)]
        StateMachine(e, s) ==
            CASE e.state = "ENGINE_OFF" -> M4EngineSimulation_engine_off(e, s)
              [] e.state = "STARTING" -> M4EngineSimulation_starting(e, s)
              [] e.state \in {"IDLING", "PLAYFUL_REV"} ->
                    M4EngineSimulation_idling(e, s, dt,
                                              previous_throttle_this_frame)
              [] e.state = "LAUNCH_HOLD" ->
                    M4EngineSimulation_launch_hold(e, s)
              [] e.state = "ACCELERATING" ->
                    M4EngineSimulation_accelerating(e, s)
              [] e.state = "CRUISING" -> M4EngineSimulation_cruising(e, s)
              [] e.state = "DECELERATING" ->
                    M4EngineSimulation_decelerating(e, s)
              [] OTHER -> Pair(e, s)
        (* the RPM simulation, once the sound manager has been updated *)
        Rpm(s) ==
            StateMachine([e1 EXCEPT !.simulated_rpm = M4RpmDecay(e1, s, dt)],
                         s)
    IN  Rpm(M4SoundManager_update(
                M4SoundManager_update_idle_fade(
                    M4SoundManager_update_long_sequence_crossfade(s0), dt)))

---------------------------------------------------------------------------
(* SupraSoundManager.  The clips of one category (the light pulls, the     *)
(* aggressive pushes, ...) differ in nothing the program reads, so the     *)
(* clip random.choice picks is modelled by its category.                   *)

SUPRA_SOUND_KEYS ==
    {"idle", "startup", "light_pull", "light_cruise", "aggressive_push",
     "violent_pull", "highway_cruise_loop", "supra_rev_stage1",
     "supra_rev_stage2", "supra_rev_stage3", "supra_rev_stage4"}

SUPRA_REV_KEYS ==
    {"supra_rev_stage1", "supra_rev_stage2", "supra_rev_stage3",
     "supra_rev_stage4"}
SUPRA_PULL_KEYS == {"light_pull", "aggressive_push", "violent_pull"}
SUPRA_CRUISE_KEYS == {"light_cruise", "highway_cruise_loop"}

(* Channel.get_volume() of a channel whose volume was never set: 1.0 *)
ChannelVolumeAtStart == 100000

SupraSoundManager_init(loaded) ==
    [sounds |-> loaded,
     channel_idle |-> Silent,
     channel_driving_A |-> Silent,
     channel_driving_B |-> Silent,
     channel_rev_sfx |-> Silent,
     active_driving_channel |-> "A",
     driving_volume |-> [A |-> ChannelVolumeAtStart, B |-> ChannelVolumeAtStart],
     idle_target_volume |-> SUPRA_NORMAL_IDLE_VOLUME,
     idle_current_volume |-> SUPRA_NORMAL_IDLE_VOLUME,
     idle_is_fading |-> FALSE,
     transitioning_driving_sound |-> FALSE,
     transition_start_time |-> SUPRA_CROSSFADE_DURATION_MS,
     last_clip_start_time |-> SUPRA_CLIP_OVERLAP_PREVENTION_TIME,
     started |-> {}]

SupraSoundManager_set_idle_target_volume(s, target_volume, instant) ==
    LET target == Max(0, Min(1000, target_volume))
    IN  IF Abs(s.idle_target_volume - target) > 10 \/ instant
        THEN IF instant
             THEN [s EXCEPT !.idle_target_volume = target,
                            !.idle_current_volume = target,
                            !.idle_is_fading = FALSE]
             ELSE [s EXCEPT !.idle_target_volume = target,
                            !.idle_is_fading =
                                IF Abs(s.idle_current_volume - target) > 10
                                THEN TRUE ELSE @]
        ELSE s

SupraSoundManager_update_idle_fade(s, dt) ==
    LET step == (SUPRA_IDLE_TRANSITION_SPEED * dt) \div 1000
    IN  IF s.idle_is_fading /\ Busy(s.channel_idle)
        THEN IF Abs(s.idle_current_volume - s.idle_target_volume) < 10
             THEN [s EXCEPT !.idle_current_volume = s.idle_target_volume,
                            !.idle_is_fading = FALSE]
             ELSE IF s.idle_current_volume < s.idle_target_volume
             THEN [s EXCEPT !.idle_current_volume =
                       Min(@ + step, s.idle_target_volume)]
             ELSE [s EXCEPT !.idle_current_volume =
                       Max(@ - step, s.idle_target_volume)]
        ELSE s

SupraSoundManager_play_idle(s) ==
    IF "idle" \notin s.sounds THEN s
    ELSE [s EXCEPT
            !.channel_idle = IF ~Busy(@) \/ @.sound # "idle"
                             THEN Playing("idle", Loop) ELSE @,
            !.started = IF ~Busy(s.channel_idle)
                           \/ s.channel_idle.sound # "idle"
                        THEN @ \cup {"idle"} ELSE @,
            !.idle_current_volume = s.idle_target_volume,
            !.idle_is_fading = FALSE]

SupraSoundManager_get_throttle_range(throttle) ==
    IF throttle >= SUPRA_HIGHWAY_CRUISE_THRESHOLD THEN "highway"
    ELSE IF throttle >= 610 THEN "violent"
    ELSE IF throttle >= 310 THEN "aggressive"
    ELSE IF throttle >= 100 THEN "light"
    ELSE "idle"

(* the clip play_driving_sound selects ("none": selected_sound is None) *)
SupraSelectDrivingSound(s, throttle_percentage, force_type) ==
    LET throttle_range == SupraSoundManager_get_throttle_range(
                              throttle_percentage)
        sound_type == IF force_type = "none" THEN "pull" ELSE force_type
        key == IF sound_type = "highway_cruise" THEN "highway_cruise_loop"
               ELSE IF sound_type = "cruise"
               THEN (IF throttle_range = "highway"
                     THEN "highway_cruise_loop" ELSE "light_cruise")
               ELSE IF throttle_range = "light" THEN "light_pull"
               ELSE IF throttle_range = "aggressive" THEN "aggressive_push"
               ELSE IF throttle_range \in {"violent", "highway"}
               THEN "violent_pull"
               ELSE "none"
    IN  IF key \in s.sounds THEN key ELSE "none"

(* play_driving_sound: [ok, s] is the value returned and the manager after *)
SupraSoundManager_play_driving_sound(s, throttle_percentage, force_type, crossfade) ==
    LET key == SupraSelectDrivingSound(s, throttle_percentage, force_type)
        len == IF force_type \in {"cruise", "highway_cruise"}
               THEN Loop ELSE SupraPullLen
        t == [s EXCEPT !.started = @ \cup {key},
                       !.last_clip_start_time = 0]
        u == IF s.active_driving_channel = "A"
             THEN [t EXCEPT
                     !.channel_driving_A =
                         IF crossfade
                         THEN FadeOut(@, SUPRA_CROSSFADE_DURATION_MS) ELSE @,
                     !.channel_driving_B = Playing(key, len),
                     !.driving_volume.B =
                         IF crossfade THEN 0 ELSE MASTER_ENGINE_VOL,
                     !.active_driving_channel = "B"]
             ELSE [t EXCEPT
                     !.channel_driving_B =
                         IF crossfade
                         THEN FadeOut(@, SUPRA_CROSSFADE_DURATION_MS) ELSE @,
                     !.channel_driving_A = Playing(key, len),
                     !.driving_volume.A =
                         IF crossfade THEN 0 ELSE MASTER_ENGINE_VOL,
                     !.active_driving_channel = "A"]
    IN  IF ~crossfade
           /\ (s.last_clip_start_time < SUPRA_CLIP_OVERLAP_PREVENTION_TIME
               \/ Busy(s.channel_driving_A) \/ Busy(s.channel_driving_B))
        THEN [ok |-> FALSE, s |-> s]
        ELSE IF key = "none" THEN [ok |-> FALSE, s |-> s]
        ELSE IF crossfade
        THEN [ok |-> TRUE,
              s |-> [u EXCEPT !.transitioning_driving_sound = TRUE,
                              !.transition_start_time = 0]]
        ELSE [ok |-> TRUE, s |-> u]

SUPRA_REV_STAGES ==
    << [key |-> "supra_rev_stage1", rpm_peak |-> 3500],
       [key |-> "supra_rev_stage2", rpm_peak |-> 5500],
       [key |-> "supra_rev_stage3", rpm_peak |-> 7500],
       [key |-> "supra_rev_stage4", rpm_peak |-> 9000] >>

(* the stage play_staged_rev plays (0: it returns None without playing) *)
SupraSelectRevStage(s, current_rpm, gesture_peak_throttle) ==
    LET g == gesture_peak_throttle
        first ==
            IF 10 * current_rpm < 8 * SUPRA_REV_STAGES[1].rpm_peak
            THEN (IF g < 400 THEN 1 ELSE IF g < 750 THEN 2 ELSE 3)
            ELSE IF 10 * current_rpm < 8 * SUPRA_REV_STAGES[2].rpm_peak
            THEN (IF g < 500 THEN 2 ELSE 3)
            ELSE IF 10 * current_rpm < 9 * SUPRA_REV_STAGES[3].rpm_peak
            THEN (IF g < 600 THEN 3 ELSE 4)
            ELSE 4
        above == {i \in 1..4 : SUPRA_REV_STAGES[i].rpm_peak >= current_rpm}
        lowest == IF above = {} THEN 4
                  ELSE CHOOSE i \in above : \A j \in above : i <= j
    IN  IF Busy(s.channel_rev_sfx) THEN 0
        ELSE IF g <= 100 /\ current_rpm > SUPRA_RPM_IDLE + 500 THEN 0
        ELSE IF SUPRA_REV_STAGES[first].key \notin s.sounds THEN 0
        ELSE IF SUPRA_REV_STAGES[first].rpm_peak < current_rpm /\ first # 4
        THEN lowest
        ELSE first

SupraSoundManager_play_staged_rev(s, current_rpm, gesture_peak_throttle) ==
    LET k == SupraSelectRevStage(s, current_rpm, gesture_peak_throttle)
    IN  IF k = 0 THEN s
        ELSE [s EXCEPT
                !.channel_rev_sfx = Playing(SUPRA_REV_STAGES[k].key, RevLen),
                !.started = @ \cup {SUPRA_REV_STAGES[k].key}]

(* update_driving_crossfade lowering the incoming voice as time passes *)
SupraSoundManager_update_driving_crossfade_inverted(s) ==
    LET active == IF s.active_driving_channel = "A"
                  THEN s.channel_driving_A ELSE s.channel_driving_B
        elapsed_time_ms == s.transition_start_time
        left == SUPRA_CROSSFADE_DURATION_MS
                  - Min(SUPRA_CROSSFADE_DURATION_MS, elapsed_time_ms)
        faded == IF Busy(active)
                 THEN [s EXCEPT !.driving_volume[s.active_driving_channel] =
                          (left * MASTER_ENGINE_VOL)
                              \div SUPRA_CROSSFADE_DURATION_MS]
                 ELSE s
    IN  IF ~s.transitioning_driving_sound THEN s
        ELSE IF elapsed_time_ms >= SUPRA_CROSSFADE_DURATION_MS
        THEN [faded EXCEPT
                !.transitioning_driving_sound = FALSE,
                !.driving_volume[s.active_driving_channel] =
                    IF Busy(active) THEN MASTER_ENGINE_VOL ELSE @]
        ELSE faded

SupraSoundManager_update_driving_crossfade(s) ==
    LET active == IF s.active_driving_channel = "A"
                  THEN s.channel_driving_A ELSE s.channel_driving_B
        elapsed_time_ms == s.transition_start_time
        (* progress * MASTER_ENGINE_VOL *)
        faded == IF Busy(active)
                 THEN [s EXCEPT !.driving_volume[s.active_driving_channel] =
                          (Min(SUPRA_CROSSFADE_DURATION_MS, elapsed_time_ms)
                               * MASTER_ENGINE_VOL)
                              \div SUPRA_CROSSFADE_DURATION_MS]
                 ELSE s
    IN  IF ~s.transitioning_driving_sound THEN s
        ELSE IF elapsed_time_ms >= SUPRA_CROSSFADE_DURATION_MS
        THEN [faded EXCEPT
                !.transitioning_driving_sound = FALSE,
                !.driving_volume[s.active_driving_channel] =
                    IF Busy(active) THEN MASTER_ENGINE_VOL ELSE @]
        ELSE faded

SupraSoundManager_is_driving_sound_busy(s) ==
    Busy(s.channel_driving_A) \/ Busy(s.channel_driving_B)
    \/ s.transitioning_driving_sound

SupraSoundManager_play_startup_sound(s) ==
    IF "startup" \in s.sounds
    THEN [s EXCEPT !.channel_rev_sfx = Playing("startup", StarterLen),
                   !.started = @ \cup {"startup"}]
    ELSE s

SupraSoundManager_stop_all_sounds(s) ==
    [s EXCEPT !.channel_idle = Silent,
              !.channel_driving_A = Silent,
              !.channel_driving_B = Silent,
              !.channel_rev_sfx = Silent,
              !.idle_is_fading = FALSE,
              !.transitioning_driving_sound = FALSE]

SupraSoundManager_fade_out_all_sounds(s, fade_ms) ==
    [s EXCEPT !.channel_idle = FadeOut(@, fade_ms),
              !.channel_driving_A = FadeOut(@, fade_ms),
              !.channel_driving_B = FadeOut(@, fade_ms),
              !.channel_rev_sfx = FadeOut(@, fade_ms)]

(* dt milliseconds of wall clock and of playback seen from the manager *)
SupraSoundManager_elapse(s, dt) ==
    [s EXCEPT !.channel_idle = AgeChannel(@, dt),
              !.channel_driving_A = AgeChannel(@, dt),
              !.channel_driving_B = AgeChannel(@, dt),
              !.channel_rev_sfx = AgeChannel(@, dt),
              !.transition_start_time =
                  Older(@, dt, SUPRA_CROSSFADE_DURATION_MS),
              !.last_clip_start_time =
                  Older(@, dt, SUPRA_CLIP_OVERLAP_PREVENTION_TIME),
              !.started = {}]

---------------------------------------------------------------------------
(* SupraEngineSimulation.  ema_throttle is kept in thousandths, rounded    *)
(* to the nearest; "none" stands for None.                                 *)

SupraEngineSimulation_init ==
    [state |-> "ENGINE_OFF",
     raw_throttle |-> 0,
     ema_throttle |-> 0,
     throttle_history |-> << >>,
     in_potential_rev_gesture |-> FALSE,
     rev_gesture_start_time |-> SUPRA_REV_GESTURE_WINDOW_TIME + 1,
     peak_throttle_in_rev_gesture |-> 0,
     rev_gesture_lockout_until_time |-> 0,
     state_start_time |-> SUPRA_CRUISE_TRANSITION_DELAY,
     audio_queue |-> "none",
     current_playing_sound_range |-> "none",
     simulated_rpm |-> SUPRA_RPM_IDLE,
     last_rev_sound_finish_time |->
         SUPRA_RPM_RESET_TO_IDLE_THRESHOLD_TIME + 1]

SupraEngineSimulation_elapse(e, dt) ==
    [e EXCEPT
        !.rev_gesture_start_time =
            Older(@, dt, SUPRA_REV_GESTURE_WINDOW_TIME + 1),
        !.rev_gesture_lockout_until_time = Nearer(@, dt),
        !.state_start_time = Older(@, dt, SUPRA_CRUISE_TRANSITION_DELAY),
        !.last_rev_sound_finish_time =
            Older(@, dt, SUPRA_RPM_RESET_TO_IDLE_THRESHOLD_TIME + 1)]

(* SUPRA_EMA_ALPHA * raw + (1 - SUPRA_EMA_ALPHA) * ema, alpha = 3/10 *)
SupraEma(raw, ema) ==
    (SUPRA_EMA_ALPHA_TENTHS * raw + (10 - SUPRA_EMA_ALPHA_TENTHS) * ema + 5)
        \div 10

SupraEngineSimulation_get_throttle_range(throttle) ==
    IF throttle >= SUPRA_HIGHWAY_CRUISE_THRESHOLD THEN "highway"
    ELSE IF throttle >= 610 THEN "violent"
    ELSE IF throttle >= 310 THEN "aggressive"
    ELSE IF throttle >= 100 THEN "light"
    ELSE "idle"

(* _play_pull_sound_for_range / _play_cruise_sound_for_range followed by   *)
(* the assignment of current_playing_sound_range when they return True     *)
SupraPlayForRange(e, s, force_type, crossfade, ema_range) ==
    LET r == SupraSoundManager_play_driving_sound(
                 s, e.ema_throttle, force_type, crossfade)
    IN  Pair(IF r.ok THEN [e EXCEPT !.current_playing_sound_range = ema_range]
             ELSE e,
             r.s)

(* SupraEngineSimulation_check_rev_gestures taking any peak above the     *)
(* deadzone for a gesture                                                 *)
SupraEngineSimulation_check_rev_gestures_twitchy(e, s, old_throttle_value) ==
    IF e.state # "IDLE"
    THEN Pair([e EXCEPT !.in_potential_rev_gesture = FALSE], s)
    ELSE
    LET h == e.throttle_history
        is_rising_from_idle ==
            Len(h) < 2 \/ h[Len(h) - 1] <= THROTTLE_DEADZONE_LOW
        e1 == IF ~e.in_potential_rev_gesture
                 /\ e.rev_gesture_lockout_until_time = 0
                 /\ e.raw_throttle > THROTTLE_DEADZONE_LOW
                 /\ is_rising_from_idle
              THEN [e EXCEPT !.in_potential_rev_gesture = TRUE,
                             !.rev_gesture_start_time = 0,
                             !.peak_throttle_in_rev_gesture = e.raw_throttle]
              ELSE e
        e2 == [e1 EXCEPT !.peak_throttle_in_rev_gesture =
                            Max(@, e1.raw_throttle)]
        peak == e2.peak_throttle_in_rev_gesture
        is_falling_after_peak ==
            /\ 10 * e2.raw_throttle < 6 * peak
            /\ e2.raw_throttle < old_throttle_value
            /\ 10 * e2.raw_throttle <= 18 * THROTTLE_DEADZONE_LOW
        k == SupraSelectRevStage(s, e2.simulated_rpm, peak)
    IN  IF ~e1.in_potential_rev_gesture THEN Pair(e1, s)
        ELSE IF e2.rev_gesture_start_time > SUPRA_REV_GESTURE_WINDOW_TIME
        THEN Pair([e2 EXCEPT !.in_potential_rev_gesture = FALSE], s)
        ELSE IF is_falling_after_peak /\ peak > THROTTLE_DEADZONE_LOW
        THEN LET e3 == [e2 EXCEPT
                          !.in_potential_rev_gesture = FALSE,
                          !.rev_gesture_lockout_until_time =
                              SUPRA_REV_RETRIGGER_LOCKOUT]
             IN  IF k = 0 THEN Pair(e3, s)
                 ELSE Pair(
                     [e3 EXCEPT
                        !.simulated_rpm = SUPRA_REV_STAGES[k].rpm_peak,
                        !.last_rev_sound_finish_time = 0 - RevLen],
                     SupraSoundManager_set_idle_target_volume(
                        SupraSoundManager_play_staged_rev(
                            s, e2.simulated_rpm, peak),
                        SUPRA_LOW_IDLE_VOLUME_DURING_REV, FALSE))
        ELSE IF is_falling_after_peak
        THEN Pair([e2 EXCEPT !.in_potential_rev_gesture = FALSE], s)
        ELSE Pair(e2, s)

SupraEngineSimulation_check_rev_gestures(e, s, old_throttle_value) ==
    IF e.state # "IDLE"
    THEN Pair([e EXCEPT !.in_potential_rev_gesture = FALSE], s)
    ELSE
    LET h == e.throttle_history
        is_rising_from_idle ==
            Len(h) < 2 \/ h[Len(h) - 1] <= THROTTLE_DEADZONE_LOW
        e1 == IF ~e.in_potential_rev_gesture
                 /\ e.rev_gesture_lockout_until_time = 0
                 /\ e.raw_throttle > THROTTLE_DEADZONE_LOW
                 /\ is_rising_from_idle
              THEN [e EXCEPT !.in_potential_rev_gesture = TRUE,
                             !.rev_gesture_start_time = 0,
                             !.peak_throttle_in_rev_gesture = e.raw_throttle]
              ELSE e
        e2 == [e1 EXCEPT !.peak_throttle_in_rev_gesture =
                            Max(@, e1.raw_throttle)]
        peak == e2.peak_throttle_in_rev_gesture
        is_falling_after_peak ==
            /\ 10 * e2.raw_throttle < 6 * peak
            /\ e2.raw_throttle < old_throttle_value
            /\ 10 * e2.raw_throttle <= 18 * THROTTLE_DEADZONE_LOW
        k == SupraSelectRevStage(s, e2.simulated_rpm, peak)
    IN  IF ~e1.in_potential_rev_gesture THEN Pair(e1, s)
        ELSE IF e2.rev_gesture_start_time > SUPRA_REV_GESTURE_WINDOW_TIME
        THEN Pair([e2 EXCEPT !.in_potential_rev_gesture = FALSE], s)
        ELSE IF is_falling_after_peak /\ peak > THROTTLE_DEADZONE_LOW + 40
        THEN LET e3 == [e2 EXCEPT
                          !.in_potential_rev_gesture = FALSE,
                          !.rev_gesture_lockout_until_time =
                              SUPRA_REV_RETRIGGER_LOCKOUT]
             IN  IF k = 0 THEN Pair(e3, s)
                 ELSE Pair(
                     [e3 EXCEPT
                        !.simulated_rpm = SUPRA_REV_STAGES[k].rpm_peak,
                        !.last_rev_sound_finish_time = 0 - RevLen],
                     SupraSoundManager_set_idle_target_volume(
                        SupraSoundManager_play_staged_rev(
                            s, e2.simulated_rpm, peak),
                        SUPRA_LOW_IDLE_VOLUME_DURING_REV, FALSE))
        ELSE IF is_falling_after_peak
        THEN Pair([e2 EXCEPT !.in_potential_rev_gesture = FALSE], s)
        ELSE Pair(e2, s)

SupraEngineSimulation_handle_idle_state(e0, s0, previous_raw_throttle) ==
    LET s1 == IF ~Busy(s0.channel_rev_sfx)
              THEN LET t == SupraSoundManager_set_idle_target_volume(
                                s0, SUPRA_NORMAL_IDLE_VOLUME, FALSE)
                   IN  IF ~Busy(t.channel_idle)
                       THEN SupraSoundManager_play_idle(t) ELSE t
              ELSE s0
        (* after the rev gestures have been checked *)
        Rest(g) ==
            IF g.e.in_potential_rev_gesture THEN g
            ELSE IF g.e.rev_gesture_lockout_until_time
                        > SUPRA_REV_RETRIGGER_LOCKOUT - 300
            THEN g
            ELSE IF SupraEngineSimulation_get_throttle_range(
                        g.e.ema_throttle) = "idle"
            THEN g
            ELSE IF 10 * g.e.raw_throttle <= 12 * THROTTLE_DEADZONE_LOW
                    /\ g.e.ema_throttle > 80
            THEN g
            ELSE Pair([g.e EXCEPT !.state = "PRE_ACCEL",
                                  !.state_start_time = 0],
                      SupraSoundManager_set_idle_target_volume(
                          g.s, 0, FALSE))
    IN  Rest(SupraEngineSimulation_check_rev_gestures(
                 e0, s1, previous_raw_throttle))

(* _handle_pre_accel_state deciding one iteration early *)
SupraEngineSimulation_handle_pre_accel_state_hasty(e, s) ==
    LET ema_range == SupraEngineSimulation_get_throttle_range(e.ema_throttle)
    IN  IF e.state_start_time + Dt < SUPRA_PRE_ACCEL_DELAY THEN Pair(e, s)
        ELSE IF ema_range = "idle"
        THEN Pair([e EXCEPT !.state = "IDLE"],
                  SupraSoundManager_set_idle_target_volume(
                      s, SUPRA_NORMAL_IDLE_VOLUME, FALSE))
        ELSE SupraPlayForRange(
                 [e EXCEPT !.state = "ACCELERATING", !.state_start_time = 0],
                 s, "pull", FALSE, ema_range)

SupraEngineSimulation_handle_pre_accel_state(e, s) ==
    LET ema_range == SupraEngineSimulation_get_throttle_range(e.ema_throttle)
    IN  IF e.state_start_time < SUPRA_PRE_ACCEL_DELAY THEN Pair(e, s)
        ELSE IF ema_range = "idle"
        THEN Pair([e EXCEPT !.state = "IDLE"],
                  SupraSoundManager_set_idle_target_volume(
                      s, SUPRA_NORMAL_IDLE_VOLUME, FALSE))
        ELSE SupraPlayForRange(
                 [e EXCEPT !.state = "ACCELERATING", !.state_start_time = 0],
                 s, "pull", FALSE, ema_range)

SupraEngineSimulation_handle_accelerating_state(e, s) ==
    LET ema_range == SupraEngineSimulation_get_throttle_range(e.ema_throttle)
    IN  IF ema_range = "idle"
        THEN Pair([e EXCEPT !.state = "DECELERATING",
                            !.state_start_time = 0,
                            !.audio_queue = "none"], s)
        ELSE IF SupraSoundManager_is_driving_sound_busy(s)
        THEN Pair([e EXCEPT !.audio_queue =
                      IF ema_range # e.current_playing_sound_range
                      THEN ema_range ELSE @], s)
        ELSE IF e.audio_queue # "none"
        THEN LET f == [e EXCEPT !.audio_queue = "none"]
             IN  IF e.audio_queue = ema_range
                 THEN SupraPlayForRange(f, s, "pull", FALSE, e.audio_queue)
                 ELSE Pair(f, s)
        ELSE IF e.state_start_time >= SUPRA_CRUISE_TRANSITION_DELAY
        THEN SupraPlayForRange(
                 [e EXCEPT !.state = "CRUISING"], s,
                 IF ema_range = "highway" THEN "highway_cruise" ELSE "cruise",
                 FALSE, ema_range)
        ELSE SupraPlayForRange(e, s, "pull", FALSE, ema_range)

SupraEngineSimulation_handle_cruising_state(e, s) ==
    LET ema_range == SupraEngineSimulation_get_throttle_range(e.ema_throttle)
    IN  IF ema_range = "idle"
        THEN Pair([e EXCEPT !.state = "DECELERATING",
                            !.state_start_time = 0], s)
        ELSE IF ema_range # e.current_playing_sound_range
        THEN SupraPlayForRange(
                 [e EXCEPT !.state = "ACCELERATING", !.state_start_time = 0],
                 s, "pull", TRUE, ema_range)
        ELSE IF ~SupraSoundManager_is_driving_sound_busy(s)
        THEN Pair(e, SupraSoundManager_play_driving_sound(
                         s, e.ema_throttle,
                         IF ema_range = "highway" THEN "highway_cruise"
                         ELSE "cruise",
                         FALSE).s)
        ELSE Pair(e, s)

SupraEngineSimulation_handle_decelerating_state(e, s) ==
    LET ema_range == SupraEngineSimulation_get_throttle_range(e.ema_throttle)
        t == SupraSoundManager_set_idle_target_volume(
                 s, SUPRA_NORMAL_IDLE_VOLUME, FALSE)
    IN  IF ema_range # "idle"
        THEN SupraPlayForRange(
                 [e EXCEPT !.state = "ACCELERATING", !.state_start_time = 0],
                 s, "pull", FALSE, ema_range)
        ELSE IF SupraSoundManager_is_driving_sound_busy(s) THEN Pair(e, s)
        ELSE Pair([e EXCEPT !.state = "IDLE",
                            !.current_playing_sound_range = "none"],
                  IF ~Busy(t.channel_idle)
                  THEN SupraSoundManager_play_idle(t) ELSE t)

(* the RPM decay and reset that precede the state branches *)
SupraRpmDecay(e, s, dt) ==
    LET is_rev_sound_playing == Busy(s.channel_rev_sfx)
        decayed ==
            IF ~is_rev_sound_playing
               /\ e.last_rev_sound_finish_time
                      > SUPRA_RPM_DECAY_COOLDOWN_AFTER_REV
               /\ e.simulated_rpm > SUPRA_RPM_IDLE
            THEN Max(SUPRA_RPM_IDLE,
                     e.simulated_rpm
                       - (SUPRA_RPM_DECAY_RATE_PER_SEC * dt) \div 1000)
            ELSE e.simulated_rpm
    IN  IF ~is_rev_sound_playing
           /\ e.last_rev_sound_finish_time
                  > SUPRA_RPM_RESET_TO_IDLE_THRESHOLD_TIME
        THEN SUPRA_RPM_IDLE
        ELSE decayed

SupraEngineSimulation_update(e0, s0, dt, new_raw_throttle) ==
    LET previous_raw_throttle == e0.raw_throttle
        s == SupraSoundManager_update_driving_crossfade(
                 SupraSoundManager_update_idle_fade(s0, dt))
        e1 == [e0 EXCEPT
                 !.raw_throttle = new_raw_throttle,
                 !.ema_throttle = SupraEma(new_raw_throttle, @),
                 !.throttle_history = HistoryAppend(@, new_raw_throttle)]
        e == [e1 EXCEPT !.simulated_rpm = SupraRpmDecay(e1, s, dt)]
    IN  CASE e.state = "ENGINE_OFF" ->
                IF e.raw_throttle > THROTTLE_DEADZONE_LOW + 50
                THEN Pair([e EXCEPT !.state = "STARTING",
                                    !.state_start_time = 0,
                                    !.raw_throttle = 0,
                                    !.ema_throttle = 0,
                                    !.simulated_rpm = SUPRA_RPM_IDLE,
                                    !.last_rev_sound_finish_time = 0],
                          SupraSoundManager_play_startup_sound(s))
                ELSE Pair(e, s)
          [] e.state = "STARTING" ->
                IF ~Busy(s.channel_rev_sfx)
                THEN Pair([e EXCEPT !.state = "IDLE",
                                    !.state_start_time = 0,
                                    !.simulated_rpm = SUPRA_RPM_IDLE,
                                    !.last_rev_sound_finish_time = 0],
                          SupraSoundManager_play_idle(
                              SupraSoundManager_set_idle_target_volume(
                                  s, SUPRA_NORMAL_IDLE_VOLUME, FALSE)))
                ELSE Pair(e, s)
          [] e.state = "IDLE" ->
                SupraEngineSimulation_handle_idle_state(
                    e, s, previous_raw_throttle)
          [] e.state = "PRE_ACCEL" ->
                SupraEngineSimulation_handle_pre_accel_state(e, s)
          [] e.state = "ACCELERATING" ->
                SupraEngineSimulation_handle_accelerating_state(e, s)
          [] e.state = "CRUISING" ->
                SupraEngineSimulation_handle_cruising_state(e, s)
          [] e.state = "DECELERATING" ->
                SupraEngineSimulation_handle_decelerating_state(e, s)
          [] OTHER -> Pair(e, s)

---------------------------------------------------------------------------
(* HellcatSoundManager.  The three rev clips and the two downshift clips   *)
(* random.choice picks from are modelled by their category ("rev",         *)
(* "downshift").  Of the continuous layers the low whine pair stands for   *)
(* all six rumble and whine channels: they are started, faded and stopped  *)
(* by the same calls, and nothing the engine reads depends on them.  Its   *)
(* target volume, a float power curve in the program, is the full scale    *)
(* whenever the throttle is above the idle threshold.                      *)

HELLCAT_SOUND_KEYS ==
    {"idle", "whine_low", "exhaust_roar", "decel_burble", "startup",
     "upshift", "downshift", "rev"}

(* the rev clips play_simple_rev chooses from.  Where nothing depends on   *)
(* which of them plays, "rev" stands for any of them, a short take; told  *)
(* apart, they are long takes.                                             *)
HELLCAT_REV_KEYS == {"rev_1", "rev_2", "rev_3"}

HellcatRevClipLen(key) ==
    IF key \in HELLCAT_REV_KEYS THEN LongRevLen ELSE HellcatRevLen

(* rev_choice is an input, not program state: the clip random.choice picks *)
(* at the next call of play_simple_rev                                     *)
HellcatSoundManager_init(loaded) ==
    [sounds |-> loaded,
     channel_idle |-> Silent,
     channel_whine_low |-> Silent,
     channel_accel_response |-> Silent,
     channel_decel_burble |-> Silent,
     channel_startup |-> Silent,
     channel_shift_sfx |-> Silent,
     idle_target_volume |-> HELLCAT_NORMAL_IDLE_VOLUME,
     idle_current_volume |-> HELLCAT_NORMAL_IDLE_VOLUME,
     idle_is_fading |-> FALSE,
     whine_low_current_vol |-> 0,
     whine_low_target_vol |-> 0,
     rev_queue |-> << >>,
     max_rev_queue_size |-> 3,
     rev_choice |-> "rev",
     started |-> {}]

HellcatSoundManager_set_idle_target_volume(s, target_volume, instant) ==
    LET target == Max(0, Min(1000, target_volume))
    IN  IF Abs(s.idle_target_volume - target) > 10 \/ instant
        THEN IF instant
             THEN [s EXCEPT !.idle_target_volume = target,
                            !.idle_current_volume = target,
                            !.idle_is_fading = FALSE]
             ELSE [s EXCEPT !.idle_target_volume = target,
                            !.idle_is_fading =
                                IF Abs(s.idle_current_volume - target) > 10
                                THEN TRUE ELSE @]
        ELSE s

HellcatSoundManager_update_idle_fade(s, dt) ==
    LET step == (SUPRA_IDLE_TRANSITION_SPEED * dt) \div 1000
    IN  IF s.idle_is_fading /\ Busy(s.channel_idle)
        THEN IF Abs(s.idle_current_volume - s.idle_target_volume) < 10
             THEN [s EXCEPT !.idle_current_volume = s.idle_target_volume,
                            !.idle_is_fading = FALSE]
             ELSE IF s.idle_current_volume < s.idle_target_volume
             THEN [s EXCEPT !.idle_current_volume =
                       Min(@ + step, s.idle_target_volume)]
             ELSE [s EXCEPT !.idle_current_volume =
                       Max(@ - step, s.idle_target_volume)]
        ELSE s

HellcatSoundManager_update_audio_inertia(s, dt) ==
    LET step == (HELLCAT_AUDIO_INERTIA_SPEED * dt) \div 1000
    IN  IF Abs(s.whine_low_current_vol - s.whine_low_target_vol) > 10
        THEN IF s.whine_low_current_vol < s.whine_low_target_vol
             THEN [s EXCEPT !.whine_low_current_vol =
                       Min(@ + step, s.whine_low_target_vol)]
             ELSE [s EXCEPT !.whine_low_current_vol =
                       Max(@ - step, s.whine_low_target_vol)]
        ELSE s

HellcatSoundManager_play_foundation_layer(s, smoothed_throttle) ==
    LET s1 == IF "idle" \in s.sounds
                 /\ (~Busy(s.channel_idle) \/ s.channel_idle.sound # "idle")
              THEN [s EXCEPT !.channel_idle = Playing("idle", Loop),
                             !.started = @ \cup {"idle"}]
              ELSE s
    IN  IF smoothed_throttle > HELLCAT_THROTTLE_IDLE_THRESHOLD
        THEN IF "whine_low" \in s1.sounds
             THEN IF ~Busy(s1.channel_whine_low)
                  THEN [s1 EXCEPT
                          !.whine_low_target_vol = 1000,
                          !.channel_whine_low = Playing("whine_low", Loop),
                          !.started = @ \cup {"whine_low"}]
                  ELSE [s1 EXCEPT !.whine_low_target_vol = 1000]
             ELSE s1
        ELSE [s1 EXCEPT
                !.whine_low_target_vol = 0,
                !.channel_whine_low =
                    IF s1.whine_low_current_vol < 10 THEN Silent ELSE @]

HellcatSoundManager_play_character_layer(s, engine_load) ==
    LET s1 == IF engine_load > 50 /\ "exhaust_roar" \in s.sounds
                 /\ ~Busy(s.channel_accel_response)
              THEN [s EXCEPT
                      !.channel_accel_response =
                          Playing("exhaust_roar", RoarLen),
                      !.started = @ \cup {"exhaust_roar"}]
              ELSE s
    IN  IF engine_load < -50
        THEN IF "decel_burble" \in s1.sounds /\ ~Busy(s1.channel_decel_burble)
             THEN [s1 EXCEPT
                     !.channel_decel_burble = Playing("decel_burble", Loop),
                     !.started = @ \cup {"decel_burble"}]
             ELSE s1
        ELSE [s1 EXCEPT !.channel_decel_burble = FadeOut(@, 200)]

HellcatSoundManager_play_startup_sound(s) ==
    IF "startup" \in s.sounds
    THEN [s EXCEPT !.channel_startup = Playing("startup", StarterLen),
                   !.started = @ \cup {"startup"}]
    ELSE s

(* play_upshift_sound / play_downshift_sound: [ok, s] *)
HellcatPlayShiftSound(s, key) ==
    IF key \in s.sounds
    THEN [ok |-> TRUE,
          s |-> [s EXCEPT !.channel_shift_sfx = Playing(key, ShiftLen),
                          !.started = @ \cup {key}]]
    ELSE [ok |-> FALSE, s |-> s]

HellcatSoundManager_play_rev_now(s, sound_key) ==
    IF sound_key \in s.sounds
    THEN [ok |-> TRUE,
          s |-> [s EXCEPT
                    !.channel_shift_sfx =
                        Playing(sound_key, HellcatRevClipLen(sound_key)),
                    !.started = @ \cup {sound_key}]]
    ELSE [ok |-> FALSE, s |-> s]

HellcatSoundManager_play_simple_rev(s) ==
    IF ~Busy(s.channel_shift_sfx)
    THEN HellcatSoundManager_play_rev_now(s, s.rev_choice)
    ELSE IF Len(s.rev_queue) < s.max_rev_queue_size
    THEN [ok |-> TRUE,
          s |-> [s EXCEPT !.rev_queue = Append(@, s.rev_choice)]]
    ELSE [ok |-> FALSE, s |-> s]

(* process_rev_queue starting the request queued last *)
HellcatSoundManager_process_rev_queue_newest(s) ==
    IF ~Busy(s.channel_shift_sfx) /\ s.rev_queue # << >>
    THEN HellcatSoundManager_play_rev_now(
             [s EXCEPT !.rev_queue = SubSeq(@, 1, Len(@) - 1)],
             s.rev_queue[Len(s.rev_queue)]).s
    ELSE s

HellcatSoundManager_process_rev_queue(s) ==
    IF ~Busy(s.channel_shift_sfx) /\ s.rev_queue # << >>
    THEN HellcatSoundManager_play_rev_now(
             [s EXCEPT !.rev_queue = Tail(@)], Head(s.rev_queue)).s
    ELSE s

HellcatSoundManager_update(s, dt) ==
    HellcatSoundManager_update_audio_inertia(
        HellcatSoundManager_process_rev_queue(
            HellcatSoundManager_update_idle_fade(s, dt)),
        dt)

HellcatSoundManager_stop_all_sounds(s) ==
    [s EXCEPT !.channel_idle = Silent,
              !.channel_whine_low = Silent,
              !.channel_accel_response = Silent,
              !.channel_decel_burble = Silent,
              !.channel_startup = Silent,
              !.channel_shift_sfx = Silent,
              !.idle_is_fading = FALSE]

HellcatSoundManager_fade_out_all_sounds(s, fade_ms) ==
    [s EXCEPT !.channel_idle = FadeOut(@, fade_ms),
              !.channel_whine_low = FadeOut(@, fade_ms),
              !.channel_accel_response = FadeOut(@, fade_ms),
              !.channel_decel_burble = FadeOut(@, fade_ms),
              !.channel_startup = FadeOut(@, fade_ms),
              !.channel_shift_sfx = FadeOut(@, fade_ms),
              !.rev_queue = << >>]

(* dt milliseconds of playback seen from the manager *)
HellcatSoundManager_elapse(s, dt) ==
    [s EXCEPT !.channel_idle = AgeChannel(@, dt),
              !.channel_whine_low = AgeChannel(@, dt),
              !.channel_accel_response = AgeChannel(@, dt),
              !.channel_decel_burble = AgeChannel(@, dt),
              !.channel_startup = AgeChannel(@, dt),
              !.channel_shift_sfx = AgeChannel(@, dt),
              !.started = {}]

---------------------------------------------------------------------------
(* HellcatEngineSimulation.  simulated_rpm is kept in whole revolutions    *)
(* per minute (every increase is rounded down), smoothed_throttle in       *)
(* thousandths rounded to the nearest.  state_start_time is written but    *)
(* never read by the program and is not kept.                              *)

HELLCAT_GEAR_ACCEL_MULTIPLIERS_TENTHS == << 12, 9, 7, 5, 4 >>
HELLCAT_GEAR_ENGINE_BRAKING == << 2000, 1500, 1200, 800, 600 >>
(* gear 1 has no entry in the program; it is never looked up *)
HELLCAT_GEAR_DOWNSHIFT_THRESHOLDS == << 1500, 1400, 1800, 2200, 2800 >>

HellcatEngineSimulation_init ==
    [state |-> "ENGINE_OFF",
     raw_throttle |-> 0,
     smoothed_throttle |-> 0,
     previous_throttle |-> 0,
     simulated_rpm |-> HELLCAT_IDLE_RPM,
     simulated_gear |-> 1,
     engine_load |-> 0,
     last_shift_time |-> HELLCAT_MIN_SHIFT_INTERVAL,
     in_simple_rev_gesture |-> FALSE,
     rev_gesture_start_time |-> HELLCAT_REV_GESTURE_TIMEOUT + 1,
     rev_peak_throttle |-> 0,
     rev_lockout_until |-> 0]

HellcatEngineSimulation_elapse(e, dt) ==
    [e EXCEPT
        !.last_shift_time = Older(@, dt, HELLCAT_MIN_SHIFT_INTERVAL),
        !.rev_gesture_start_time =
            Older(@, dt, HELLCAT_REV_GESTURE_TIMEOUT + 1),
        !.rev_lockout_until = Nearer(@, dt)]

(* HELLCAT_EMA_ALPHA * raw + (1 - HELLCAT_EMA_ALPHA) * smoothed *)
HellcatEma(raw, smoothed) ==
    (HELLCAT_EMA_ALPHA_TENTHS * raw
        + (10 - HELLCAT_EMA_ALPHA_TENTHS) * smoothed + 5) \div 10

(* check_simple_rev_gestures opening a window whatever the lockout *)
HellcatEngineSimulation_check_simple_rev_gestures_unlocked(e, s) ==
    IF e.state # "IDLE"
    THEN Pair([e EXCEPT !.in_simple_rev_gesture = FALSE], s)
    ELSE
    LET e1 == IF ~e.in_simple_rev_gesture
                 /\ e.raw_throttle > 2 * HELLCAT_THROTTLE_IDLE_THRESHOLD
                 /\ 2 * e.previous_throttle
                        <= 3 * HELLCAT_THROTTLE_IDLE_THRESHOLD
              THEN [e EXCEPT !.in_simple_rev_gesture = TRUE,
                             !.rev_gesture_start_time = 0,
                             !.rev_peak_throttle = e.raw_throttle]
              ELSE e
        e2 == [e1 EXCEPT !.rev_peak_throttle = Max(@, e1.raw_throttle)]
        is_dropping_to_idle ==
            /\ 2 * e2.raw_throttle < e2.rev_peak_throttle
            /\ e2.raw_throttle <= 2 * HELLCAT_THROTTLE_IDLE_THRESHOLD
        r == HellcatSoundManager_play_simple_rev(s)
    IN  IF ~e1.in_simple_rev_gesture THEN Pair(e1, s)
        ELSE IF e2.rev_gesture_start_time > HELLCAT_REV_GESTURE_TIMEOUT
        THEN Pair([e2 EXCEPT !.in_simple_rev_gesture = FALSE], s)
        ELSE IF is_dropping_to_idle /\ e2.rev_peak_throttle > 80
        THEN Pair([e2 EXCEPT !.in_simple_rev_gesture = FALSE,
                             !.rev_lockout_until = HELLCAT_REV_LOCKOUT],
                  IF r.ok
                  THEN HellcatSoundManager_set_idle_target_volume(
                           r.s, HELLCAT_LOW_IDLE_VOLUME_DURING_SHIFT, FALSE)
                  ELSE r.s)
        ELSE IF is_dropping_to_idle
        THEN Pair([e2 EXCEPT !.in_simple_rev_gesture = FALSE], s)
        ELSE Pair(e2, s)

HellcatEngineSimulation_check_simple_rev_gestures(e, s) ==
    IF e.state # "IDLE"
    THEN Pair([e EXCEPT !.in_simple_rev_gesture = FALSE], s)
    ELSE
    LET e1 == IF ~e.in_simple_rev_gesture /\ e.rev_lockout_until = 0
                 /\ e.raw_throttle > 2 * HELLCAT_THROTTLE_IDLE_THRESHOLD
                 /\ 2 * e.previous_throttle
                        <= 3 * HELLCAT_THROTTLE_IDLE_THRESHOLD
              THEN [e EXCEPT !.in_simple_rev_gesture = TRUE,
                             !.rev_gesture_start_time = 0,
                             !.rev_peak_throttle = e.raw_throttle]
              ELSE e
        e2 == [e1 EXCEPT !.rev_peak_throttle = Max(@, e1.raw_throttle)]
        is_dropping_to_idle ==
            /\ 2 * e2.raw_throttle < e2.rev_peak_throttle
            /\ e2.raw_throttle <= 2 * HELLCAT_THROTTLE_IDLE_THRESHOLD
        r == HellcatSoundManager_play_simple_rev(s)
    IN  IF ~e1.in_simple_rev_gesture THEN Pair(e1, s)
        ELSE IF e2.rev_gesture_start_time > HELLCAT_REV_GESTURE_TIMEOUT
        THEN Pair([e2 EXCEPT !.in_simple_rev_gesture = FALSE], s)
        ELSE IF is_dropping_to_idle /\ e2.rev_peak_throttle > 80
        THEN Pair([e2 EXCEPT !.in_simple_rev_gesture = FALSE,
                             !.rev_lockout_until = HELLCAT_REV_LOCKOUT],
                  IF r.ok
                  THEN HellcatSoundManager_set_idle_target_volume(
                           r.s, HELLCAT_LOW_IDLE_VOLUME_DURING_SHIFT, FALSE)
                  ELSE r.s)
        ELSE IF is_dropping_to_idle
        THEN Pair([e2 EXCEPT !.in_simple_rev_gesture = FALSE], s)
        ELSE Pair(e2, s)

HellcatEngineSimulation_handle_idle_state(e0, s0, dt) ==
    LET (* after the rev gestures have been checked *)
        Rest(e, s) ==
            Pair([e EXCEPT
                    !.state =
                        IF ~e.in_simple_rev_gesture
                           /\ e.smoothed_throttle
                                  > HELLCAT_THROTTLE_IDLE_THRESHOLD
                           /\ e.raw_throttle > HELLCAT_THROTTLE_IDLE_THRESHOLD
                        THEN "DRIVING"
                        ELSE @,
                    !.simulated_rpm =
                        IF @ > HELLCAT_IDLE_RPM
                        THEN Max(HELLCAT_IDLE_RPM,
                                 @ - (HELLCAT_RPM_DECAY_COAST * dt) \div 1000)
                        ELSE @],
                 s)
        Checked(g) == Rest(g.e, g.s)
    IN  Checked(HellcatEngineSimulation_check_simple_rev_gestures(
                    e0, HellcatSoundManager_set_idle_target_volume(
                            s0, HELLCAT_NORMAL_IDLE_VOLUME, FALSE)))

(* the RPM physics of the DRIVING branch, capped at the redline *)
HellcatDrivingRpm(e, dt) ==
    LET rpm_increase ==
            (HELLCAT_RPM_ACCEL_BASE * e.smoothed_throttle
               * HELLCAT_GEAR_ACCEL_MULTIPLIERS_TENTHS[e.simulated_gear] * dt)
                 \div 10000000
        total_decay ==
            (IF e.engine_load < -50 THEN HELLCAT_RPM_THROTTLE_LIFT_DECAY
             ELSE HELLCAT_RPM_DECAY_COAST)
            + HELLCAT_GEAR_ENGINE_BRAKING[e.simulated_gear]
        rpm == IF e.smoothed_throttle > HELLCAT_THROTTLE_IDLE_THRESHOLD
               THEN e.simulated_rpm + rpm_increase
               ELSE Max(HELLCAT_IDLE_RPM,
                        e.simulated_rpm - (total_decay * dt) \div 1000)
    IN  Min(rpm, HELLCAT_REDLINE_RPM)

(* the downshift block shifting whatever the time since the last shift *)
HellcatDownshift_hasty(e, s) ==
    LET downshift_threshold ==
            HELLCAT_GEAR_DOWNSHIFT_THRESHOLDS[e.simulated_gear]
        immediate_throttle_release ==
            e.engine_load < -150
            /\ 10 * e.simulated_rpm < 14 * downshift_threshold
        natural_rpm_downshift ==
            e.simulated_rpm < downshift_threshold
            /\ e.smoothed_throttle < 400
        stopping_downshift ==
            e.simulated_rpm < 1400 /\ e.smoothed_throttle < 150
        sustained_low_throttle ==
            /\ e.smoothed_throttle < 100
            /\ 10 * e.simulated_rpm < 13 * downshift_threshold
            /\ 10 * e.last_shift_time >= 7 * HELLCAT_MIN_SHIFT_INTERVAL
        r == HellcatPlayShiftSound(s, "downshift")
    IN  IF e.simulated_gear > 1
           /\ (immediate_throttle_release \/ natural_rpm_downshift
               \/ stopping_downshift \/ sustained_low_throttle)
        THEN Pair([e EXCEPT
                     !.simulated_gear = @ - 1,
                     !.simulated_rpm =
                         Min((3 * HELLCAT_REDLINE_RPM) \div 4,
                             @ + 400 + (e.simulated_gear - 1) * 150),
                     !.last_shift_time = 0],
                  IF r.ok
                  THEN HellcatSoundManager_set_idle_target_volume(
                           r.s, HELLCAT_LOW_IDLE_VOLUME_DURING_SHIFT, FALSE)
                  ELSE r.s)
        ELSE Pair(e, s)

(* the upshift block with the RPM reset taken from the gear shifted from *)
HellcatUpshift_flat(e, s) ==
    IF e.simulated_rpm >= HELLCAT_REDLINE_RPM /\ e.simulated_gear < 5
       /\ e.last_shift_time >= HELLCAT_MIN_SHIFT_INTERVAL
    THEN LET r == HellcatPlayShiftSound(s, "upshift")
         IN  Pair([e EXCEPT !.simulated_gear = @ + 1,
                            !.simulated_rpm = 1800 + e.simulated_gear * 100,
                            !.last_shift_time = 0],
                  IF r.ok
                  THEN HellcatSoundManager_set_idle_target_volume(
                           r.s, HELLCAT_LOW_IDLE_VOLUME_DURING_SHIFT, FALSE)
                  ELSE r.s)
    ELSE Pair(e, s)

(* the upshift block *)
HellcatUpshift(e, s) ==
    IF e.simulated_rpm >= HELLCAT_REDLINE_RPM /\ e.simulated_gear < 5
       /\ e.last_shift_time >= HELLCAT_MIN_SHIFT_INTERVAL
    THEN LET r == HellcatPlayShiftSound(s, "upshift")
         IN  Pair([e EXCEPT !.simulated_gear = @ + 1,
                            !.simulated_rpm = 1800 + (e.simulated_gear + 1) * 100,
                            !.last_shift_time = 0],
                  IF r.ok
                  THEN HellcatSoundManager_set_idle_target_volume(
                           r.s, HELLCAT_LOW_IDLE_VOLUME_DURING_SHIFT, FALSE)
                  ELSE r.s)
    ELSE Pair(e, s)

(* the downshift block *)
HellcatDownshift(e, s) ==
    LET downshift_threshold ==
            HELLCAT_GEAR_DOWNSHIFT_THRESHOLDS[e.simulated_gear]
        immediate_throttle_release ==
            e.engine_load < -150
            /\ 10 * e.simulated_rpm < 14 * downshift_threshold
        natural_rpm_downshift ==
            e.simulated_rpm < downshift_threshold
            /\ e.smoothed_throttle < 400
        stopping_downshift ==
            e.simulated_rpm < 1400 /\ e.smoothed_throttle < 150
        sustained_low_throttle ==
            /\ e.smoothed_throttle < 100
            /\ 10 * e.simulated_rpm < 13 * downshift_threshold
            /\ 10 * e.last_shift_time >= 7 * HELLCAT_MIN_SHIFT_INTERVAL
        r == HellcatPlayShiftSound(s, "downshift")
    IN  IF e.simulated_gear > 1
           /\ e.last_shift_time >= HELLCAT_MIN_SHIFT_INTERVAL
           /\ (immediate_throttle_release \/ natural_rpm_downshift
               \/ stopping_downshift \/ sustained_low_throttle)
        THEN Pair([e EXCEPT
                     !.simulated_gear = @ - 1,
                     !.simulated_rpm =
                         Min((3 * HELLCAT_REDLINE_RPM) \div 4,
                             @ + 400 + (e.simulated_gear - 1) * 150),
                     !.last_shift_time = 0],
                  IF r.ok
                  THEN HellcatSoundManager_set_idle_target_volume(
                           r.s, HELLCAT_LOW_IDLE_VOLUME_DURING_SHIFT, FALSE)
                  ELSE r.s)
        ELSE Pair(e, s)

HellcatEngineSimulation_handle_driving_state(e, s, dt) ==
    IF e.smoothed_throttle <= HELLCAT_THROTTLE_IDLE_THRESHOLD
    THEN Pair([e EXCEPT !.state = "IDLE"],
              HellcatSoundManager_set_idle_target_volume(
                  s, HELLCAT_NORMAL_IDLE_VOLUME, FALSE))
    ELSE LET Restore(d) ==
                 Pair(d.e,
                      IF ~Busy(d.s.channel_shift_sfx)
                      THEN HellcatSoundManager_set_idle_target_volume(
                               d.s, HELLCAT_NORMAL_IDLE_VOLUME, FALSE)
                      ELSE d.s)
             Down(u) == Restore(HellcatDownshift(u.e, u.s))
         IN  Down(HellcatUpshift(
                      [e EXCEPT !.simulated_rpm = HellcatDrivingRpm(e, dt)],
                      s))

HellcatEngineSimulation_update(e0, s0, dt, new_raw_throttle) ==
    LET e == [e0 EXCEPT
                !.previous_throttle = e0.raw_throttle,
                !.raw_throttle = new_raw_throttle,
                !.smoothed_throttle = HellcatEma(new_raw_throttle, @),
                !.engine_load = new_raw_throttle - e0.raw_throttle]
        StateMachine(s) ==
            CASE e.state = "ENGINE_OFF" ->
                    IF e.raw_throttle > THROTTLE_DEADZONE_LOW + 50
                    THEN Pair([e EXCEPT !.state = "STARTING",
                                        !.raw_throttle = 0,
                                        !.smoothed_throttle = 0,
                                        !.simulated_rpm = HELLCAT_IDLE_RPM],
                              HellcatSoundManager_play_startup_sound(s))
                    ELSE Pair(e, s)
               [] e.state = "STARTING" ->
                    IF ~Busy(s.channel_startup)
                    THEN Pair([e EXCEPT !.state = "IDLE"],
                              HellcatSoundManager_set_idle_target_volume(
                                  s, HELLCAT_NORMAL_IDLE_VOLUME, FALSE))
                    ELSE Pair(e, s)
               [] e.state = "IDLE" ->
                    HellcatEngineSimulation_handle_idle_state(e, s, dt)
               [] e.state = "DRIVING" ->
                    HellcatEngineSimulation_handle_driving_state(e, s, dt)
               [] OTHER -> Pair(e, s)
        (* the audio layers, once the state machine has run *)
        Layers(r) ==
            IF r.e.state \notin {"ENGINE_OFF", "STARTING"}
            THEN Pair(r.e,
                      HellcatSoundManager_play_character_layer(
                          HellcatSoundManager_play_foundation_layer(
                              r.s, r.e.smoothed_throttle),
                          r.e.engine_load))
            ELSE r
    IN  Layers(StateMachine(HellcatSoundManager_update(s0, dt)))

---------------------------------------------------------------------------
(* TripleCarSystem and the main loop.  A world is the record of the seven  *)
(* objects; the loop iteration is an operator on worlds.                   *)

CARS == << "M4", "Supra", "Hellcat" >>

RawLevels == {0, 700, 1000}

TripleCarSystem_init ==
    [current_car_index |-> 0,
     current_car |-> CARS[1],
     switching_cars |-> FALSE,
     switch_start_time |-> SUPRA_CROSSFADE_DURATION_MS,
     throttle_buffer |-> [i \in 1..THROTTLE_SMOOTHING_WINDOW_SIZE |-> 0]]

World_init ==
    [sys |-> TripleCarSystem_init,
     m4 |-> M4EngineSimulation_init,
     m4sm |-> M4SoundManager_init(M4_SOUND_KEYS),
     supra |-> SupraEngineSimulation_init,
     suprasm |-> SupraSoundManager_init(SUPRA_SOUND_KEYS),
     hellcat |-> HellcatEngineSimulation_init,
     hellcatsm |-> HellcatSoundManager_init(HELLCAT_SOUND_KEYS)]

RECURSIVE SumSeq(_)
SumSeq(q) == IF q = << >> THEN 0 ELSE Head(q) + SumSeq(Tail(q))

(* sum(self.throttle_buffer) / len(self.throttle_buffer) *)
Smoothed(buffer) == SumSeq(buffer) \div Len(buffer)

(* dt milliseconds pass between two readings of the clock by the loop *)
World_elapse(w, dt) ==
    [w EXCEPT
        !.sys.switch_start_time = Older(@, dt, SUPRA_CROSSFADE_DURATION_MS),
        !.m4 = M4EngineSimulation_elapse(@, dt),
        !.m4sm = M4SoundManager_elapse(@, dt),
        !.supra = SupraEngineSimulation_elapse(@, dt),
        !.suprasm = SupraSoundManager_elapse(@, dt),
        !.hellcat = HellcatEngineSimulation_elapse(@, dt),
        !.hellcatsm = HellcatSoundManager_elapse(@, dt)]

(* TripleCarSystem_switch_car starting over while a switch is in progress *)
TripleCarSystem_switch_car_again(w) ==
    LET old_car == w.sys.current_car
        t == [w EXCEPT
                !.sys.current_car_index = (@ + 1) % Len(CARS),
                !.sys.switching_cars = TRUE,
                !.sys.switch_start_time = 0]
    IN  IF old_car = "M4"
        THEN [t EXCEPT !.m4sm = M4SoundManager_fade_out_all_sounds(
                                   @, SUPRA_CROSSFADE_DURATION_MS)]
        ELSE IF old_car = "Supra"
        THEN [t EXCEPT !.suprasm = SupraSoundManager_fade_out_all_sounds(
                                      @, SUPRA_CROSSFADE_DURATION_MS)]
        ELSE [t EXCEPT
                !.hellcatsm = HellcatSoundManager_fade_out_all_sounds(
                                  @, SUPRA_CROSSFADE_DURATION_MS)]

TripleCarSystem_switch_car(w) ==
    IF w.sys.switching_cars THEN w
    ELSE LET old_car == w.sys.current_car
             t == [w EXCEPT
                     !.sys.current_car_index = (@ + 1) % Len(CARS),
                     !.sys.switching_cars = TRUE,
                     !.sys.switch_start_time = 0]
         IN  IF old_car = "M4"
             THEN [t EXCEPT !.m4sm = M4SoundManager_fade_out_all_sounds(
                                        @, SUPRA_CROSSFADE_DURATION_MS)]
             ELSE IF old_car = "Supra"
             THEN [t EXCEPT !.suprasm = SupraSoundManager_fade_out_all_sounds(
                                           @, SUPRA_CROSSFADE_DURATION_MS)]
             ELSE [t EXCEPT
                     !.hellcatsm = HellcatSoundManager_fade_out_all_sounds(
                                       @, SUPRA_CROSSFADE_DURATION_MS)]

(* TripleCarSystem_complete_switch selecting the car after the next *)
TripleCarSystem_complete_switch_skipping(w) ==
    LET t == IF w.sys.current_car = "M4"
             THEN [w EXCEPT !.m4sm = M4SoundManager_stop_all_sounds(@)]
             ELSE IF w.sys.current_car = "Supra"
             THEN [w EXCEPT !.suprasm = SupraSoundManager_stop_all_sounds(@)]
             ELSE [w EXCEPT
                     !.hellcatsm = HellcatSoundManager_stop_all_sounds(@)]
        new_car == CARS[((w.sys.current_car_index + 1) % Len(CARS)) + 1]
        u == [t EXCEPT !.sys.current_car = new_car,
                       !.sys.switching_cars = FALSE]
    IN  IF new_car = "M4" THEN [u EXCEPT !.m4.state = "ENGINE_OFF"]
        ELSE IF new_car = "Supra" THEN [u EXCEPT !.supra.state = "ENGINE_OFF"]
        ELSE [u EXCEPT !.hellcat.state = "ENGINE_OFF",
                       !.hellcat.simulated_rpm = HELLCAT_IDLE_RPM,
                       !.hellcat.simulated_gear = 1,
                       !.hellcat.last_shift_time = HELLCAT_MIN_SHIFT_INTERVAL]

(* the completion of a switch inside update() *)
TripleCarSystem_complete_switch(w) ==
    LET t == IF w.sys.current_car = "M4"
             THEN [w EXCEPT !.m4sm = M4SoundManager_stop_all_sounds(@)]
             ELSE IF w.sys.current_car = "Supra"
             THEN [w EXCEPT !.suprasm = SupraSoundManager_stop_all_sounds(@)]
             ELSE [w EXCEPT
                     !.hellcatsm = HellcatSoundManager_stop_all_sounds(@)]
        new_car == CARS[w.sys.current_car_index + 1]
        u == [t EXCEPT !.sys.current_car = new_car,
                       !.sys.switching_cars = FALSE]
    IN  IF new_car = "M4" THEN [u EXCEPT !.m4.state = "ENGINE_OFF"]
        ELSE IF new_car = "Supra" THEN [u EXCEPT !.supra.state = "ENGINE_OFF"]
        ELSE [u EXCEPT !.hellcat.state = "ENGINE_OFF",
                       !.hellcat.simulated_rpm = HELLCAT_IDLE_RPM,
                       !.hellcat.simulated_gear = 1,
                       !.hellcat.last_shift_time = HELLCAT_MIN_SHIFT_INTERVAL]

TripleCarSystem_update_engine(w, dt, raw_throttle) ==
    LET M4(r) == [w EXCEPT !.m4 = r.e, !.m4sm = r.s]
        Supra(r) == [w EXCEPT !.supra = r.e, !.suprasm = r.s]
        Hellcat(r) == [w EXCEPT !.hellcat = r.e, !.hellcatsm = r.s]
    IN  IF w.sys.current_car = "M4"
        THEN M4(M4EngineSimulation_update(
                    w.m4, w.m4sm, dt, Smoothed(w.sys.throttle_buffer)))
        ELSE IF w.sys.current_car = "Supra"
        THEN Supra(SupraEngineSimulation_update(
                       w.supra, w.suprasm, dt, raw_throttle))
        ELSE Hellcat(HellcatEngineSimulation_update(
                         w.hellcat, w.hellcatsm, dt, raw_throttle))

(* TripleCarSystem_update handing the throttle to the engine of the        *)
(* outgoing car while a switch is in progress                              *)
TripleCarSystem_update_through(w0, dt, raw_throttle) ==
    LET w == [w0 EXCEPT !.sys.throttle_buffer =
                             Append(Tail(@), raw_throttle)]
    IN  TripleCarSystem_update_engine(
            IF w.sys.switching_cars
               /\ w.sys.switch_start_time >= SUPRA_CROSSFADE_DURATION_MS
            THEN TripleCarSystem_complete_switch(w)
            ELSE w,
            dt, raw_throttle)

TripleCarSystem_update(w0, dt, raw_throttle) ==
    LET w == [w0 EXCEPT !.sys.throttle_buffer =
                             Append(Tail(@), raw_throttle)]
    IN  IF w.sys.switching_cars
           /\ w.sys.switch_start_time < SUPRA_CROSSFADE_DURATION_MS
        THEN w
        ELSE TripleCarSystem_update_engine(
                 IF w.sys.switching_cars
                 THEN TripleCarSystem_complete_switch(w)
                 ELSE w,
                 dt, raw_throttle)

(* one iteration of the main loop: dt since the previous one, the button   *)
(* handler reporting a short press or not, the throttle read from the ADC  *)
MainLoopIteration(w, dt, short_press, raw_throttle) ==
    LET Button(w1) ==
            IF short_press THEN TripleCarSystem_switch_car(w1) ELSE w1
    IN  TripleCarSystem_update(Button(World_elapse(w, dt)), dt, raw_throttle)

World == [sys |-> sys, m4 |-> m4, m4sm |-> m4sm, supra |-> supra,
          suprasm |-> suprasm, hellcat |-> hellcat, hellcatsm |-> hellcatsm]

Becomes(w) ==
    /\ sys' = w.sys
    /\ m4' = w.m4
    /\ m4sm' = w.m4sm
    /\ supra' = w.supra
    /\ suprasm' = w.suprasm
    /\ hellcat' = w.hellcat
    /\ hellcatsm' = w.hellcatsm

Starts(w) ==
    /\ sys = w.sys
    /\ m4 = w.m4
    /\ m4sm = w.m4sm
    /\ supra = w.supra
    /\ suprasm = w.suprasm
    /\ hellcat = w.hellcat
    /\ hellcatsm = w.hellcatsm

(* the loop run over a sequence of inputs [raw, press]: over its first     *)
(* half, and from the state that leaves over its second half              *)
RECURSIVE RunLoop(_, _)
RunLoop(w, inputs) ==
    LET half == Len(inputs) \div 2
    IN  IF inputs = << >> THEN w
        ELSE IF Len(inputs) = 1
        THEN MainLoopIteration(w, Dt, inputs[1].press, inputs[1].raw)
        ELSE CHOOSE after \in
                 {RunLoop(mid, SubSeq(inputs, half + 1, Len(inputs))) :
                      mid \in {RunLoop(w, SubSeq(inputs, 1, half))}} : TRUE

Ticks(n, raw) == [i \in 1..n |-> [raw |-> raw, press |-> FALSE]]
Press == << [raw |-> 0, press |-> TRUE] >>

(* one stab at the pedal starts the engine *)
Start == Ticks(1, 1000)
(* the pedal left alone until every timer of the engine has run out *)
Settle == Ticks(SettleTicks, 0)
(* a short press of the button, and the cross-fade that follows it *)
SwitchAndWait == Press \o Ticks(SwitchTicks, 0)
(* the pedal floored for a while *)
Pull == Ticks(PullTicks, 1000)

(* The inputs that bring the program from power-up to the states the      *)
(* rider finds it in: each car started and idling with every timer run    *)
(* out; the Hellcat idling in second gear after a pull through the first; *)
(* the Supra selected with the Hellcat left behind in second gear at      *)
(* speed; the Hellcat pulling in fifth gear at an RPM from which the rev   *)
(* match of a downshift reaches its cap;                                   *)
(* the Hellcat idling after two blips, the rev clip of the first still     *)
(* playing and the request of the second in the rev queue;                 *)
(* the M4 selected again after a round through the three cars that        *)
(* began with the pedal held in the launch band for a little under the    *)
(* hold duration; the M4 in a full acceleration it has just begun.        *)
Journeys ==
    [PowerUp |-> << >>,
     M4Idling |-> Start \o Settle \o Settle,
     SupraIdle |-> SwitchAndWait \o Start \o Settle \o Settle,
     HellcatIdle |->
         SwitchAndWait \o SwitchAndWait \o Start \o Settle \o Settle,
     HellcatSecondGear |->
         SwitchAndWait \o SwitchAndWait \o Start \o Settle \o Settle
             \o Pull \o Pull \o Settle,
     HellcatParked |->
         SwitchAndWait \o SwitchAndWait \o Start \o Settle \o Settle
             \o Pull \o Pull \o SwitchAndWait \o SwitchAndWait,
     HellcatThirdGear |->
         SwitchAndWait \o SwitchAndWait \o Start \o Settle \o Settle
             \o Pull \o Pull \o Pull \o Pull \o Settle,
     HellcatFifthGear |->
         SwitchAndWait \o SwitchAndWait \o Start \o Settle \o Settle
             \o Pull \o Pull \o Pull \o Pull \o Pull \o Pull \o Pull \o Pull
             \o Ticks(FifthTicks, 1000),
     M4Primed |->
         Start \o Settle \o Settle \o Ticks(PrimeTicks, 700)
             \o SwitchAndWait \o SwitchAndWait \o SwitchAndWait,
     M4Accelerating |-> Start \o Settle \o Settle \o Ticks(FloorTicks, 1000),
     SupraOff |-> SwitchAndWait,
     HellcatOff |-> SwitchAndWait \o SwitchAndWait,
     PowerUpNoStarter |-> << >>,
     SupraOffNoStarter |-> SwitchAndWait,
     HellcatOffNoStarter |-> SwitchAndWait \o SwitchAndWait,
     M4NoLaunchClips |-> Start \o Settle \o Settle,
     M4NoAccelClip |-> Start \o Settle \o Settle,
     M4NoClips |-> Start \o Settle \o Settle,
     M4NoHoldLoop |-> Start \o Settle \o Settle,
     HellcatRevClips |->
         SwitchAndWait \o SwitchAndWait \o Start \o Settle \o Settle,
     HellcatRevQueued |->
         SwitchAndWait \o SwitchAndWait \o Start \o Settle \o Settle
             \o Start \o Ticks(LockoutTicks, 0) \o Start \o Ticks(2, 0)]

(* load_sounds(): the clips of the M4 whose files are not found on the     *)
(* journeys that start without them; their entries of sounds are None     *)
M4Missing ==
    [M4NoLaunchClips |-> {"launch_control_engage", "launch_control_hold_loop"},
     M4NoAccelClip |-> {"accel_gears"},
     M4NoClips |-> M4_SOUND_KEYS,
     M4NoHoldLoop |-> {"launch_control_hold_loop"}]

(* the journeys on which the starter clip of no car is found *)
StarterMissing ==
    {"PowerUpNoStarter", "SupraOffNoStarter", "HellcatOffNoStarter"}

(* the program as constructed at the start of a journey; on the journeys  *)
(* HellcatRevClips and HellcatRevQueued the rev clips of the Hellcat are   *)
(* told apart, and on the second random.choice picks rev_1                 *)
Constructed(j) ==
    IF j \in DOMAIN M4Missing
    THEN [World_init EXCEPT
            !.m4sm = M4SoundManager_init(M4_SOUND_KEYS \ M4Missing[j])]
    ELSE IF j \in StarterMissing
    THEN [World_init EXCEPT
            !.m4sm = M4SoundManager_init(M4_SOUND_KEYS \ {"starter"}),
            !.suprasm = SupraSoundManager_init(SUPRA_SOUND_KEYS \ {"startup"}),
            !.hellcatsm =
                HellcatSoundManager_init(HELLCAT_SOUND_KEYS \ {"startup"})]
    ELSE IF j = "HellcatRevClips"
    THEN [World_init EXCEPT
            !.hellcatsm = HellcatSoundManager_init(
                              HELLCAT_SOUND_KEYS \cup HELLCAT_REV_KEYS)]
    ELSE IF j = "HellcatRevQueued"
    THEN [World_init EXCEPT
            !.hellcatsm = [HellcatSoundManager_init(
                               HELLCAT_SOUND_KEYS \cup HELLCAT_REV_KEYS)
                           EXCEPT !.rev_choice = "rev_1"]]
    ELSE World_init

(* the state each of them ends in *)
Reached == [j \in DOMAIN Journeys |-> RunLoop(Constructed(j), Journeys[j])]

---------------------------------------------------------------------------
(* The rider.  env counts what the rider may still do: moves of the pedal  *)
(* to another level, presses of the button and, for a rider who only      *)
(* blips, patience: the iterations the pedal may still be kept down; hold  *)
(* is set once the rider has let go of the pedal for good.  revs counts    *)
(* the rev clips started since the last gesture resolved, while its        *)
(* lockout runs.                                                           *)
Rider(moves, presses, blips) ==
    [moves |-> moves, presses |-> presses, blips |-> blips,
     patience |-> IF blips THEN MaxPatience ELSE 0,
     hold |-> FALSE, revs |-> 0]

LastRaw == sys.throttle_buffer[THROTTLE_SMOOTHING_WINDOW_SIZE]

(* the gesture lockout of the selected car: what is left of it, and what   *)
(* it is set to when a gesture resolves                                    *)
LockoutLeft(w) ==
    IF w.sys.current_car = "M4" THEN w.m4.gesture_lockout_until_time
    ELSE IF w.sys.current_car = "Supra"
    THEN w.supra.rev_gesture_lockout_until_time
    ELSE w.hellcat.rev_lockout_until

LockoutSet(w) ==
    IF w.sys.current_car = "M4" THEN M4_GESTURE_RETRIGGER_LOCKOUT
    ELSE IF w.sys.current_car = "Supra" THEN SUPRA_REV_RETRIGGER_LOCKOUT
    ELSE HELLCAT_REV_LOCKOUT

(* a gesture of the selected car resolved in the iteration that led to w *)
GestureResolved(w) == LockoutLeft(w) = LockoutSet(w)

(* a rev clip of the selected car was started in the iteration that led to w *)
RevStarted(w) ==
    IF w.sys.current_car = "M4" THEN w.m4sm.started \cap M4_REV_KEYS # {}
    ELSE IF w.sys.current_car = "Supra"
    THEN w.suprasm.started \cap SUPRA_REV_KEYS # {}
    ELSE "rev" \in w.hellcatsm.started

RevsCounted(w) ==
    LET one == IF RevStarted(w) THEN 1 ELSE 0
    IN  IF LockoutLeft(w) = 0 THEN 0
        ELSE IF GestureResolved(w) THEN one
        ELSE Min(2, env.revs + one)

(* the rider may put the pedal at raw *)
MayFeed(raw) ==
    /\ raw # LastRaw => env.moves > 0
    /\ raw > 0 /\ env.blips => env.patience > 0

(* the loop has run once and left the world w to a rider left as rider *)
Lands(w, rider) ==
    /\ Becomes(w)
    /\ env' = [rider EXCEPT !.revs = RevsCounted(w)]

(* the loop runs once with the pedal at raw; press: the button handler     *)
(* reports a short press                                                   *)
Feed(raw, press) ==
    Lands(MainLoopIteration(World, Dt, press, raw),
          [env EXCEPT
              !.moves = IF raw # LastRaw THEN @ - 1 ELSE @,
              !.patience = IF raw > 0 /\ env.blips THEN @ - 1 ELSE @,
              !.presses = IF press THEN @ - 1 ELSE @])

Drive ==
    \E raw \in RawLevels :
        /\ ~env.hold
        /\ MayFeed(raw)
        /\ Feed(raw, FALSE)

(* the rider lets go of the pedal and never touches it again *)
Release ==
    /\ ~env.hold
    /\ Lands(MainLoopIteration(World, Dt, FALSE, 0),
             [env EXCEPT !.hold = TRUE])

(* an iteration of the loop with the pedal left alone *)
Coast ==
    /\ env.hold
    /\ Lands(MainLoopIteration(World, Dt, FALSE, 0), env)

(* an iteration of the loop in which handle_button() reports a short press *)
ButtonSwitch ==
    /\ ~env.hold
    /\ env.presses > 0
    /\ MayFeed(LastRaw)
    /\ Feed(LastRaw, TRUE)

(* A rider of the M4 who is watched: band is the time the throttle seen by *)
(* the M4 has been in the launch band over consecutive iterations that     *)
(* found the M4 in IDLING or PLAYFUL_REV, idle the time the M4 has been in *)
(* IDLING without a break, rested whether such a stay has exceeded         *)
(* M4_FULL_ACCEL_RESET_IDLE_TIME since ACCELERATING was last entered.      *)
Watcher(moves) ==
    [moves |-> moves, band |-> 0, idle |-> 0, rested |-> TRUE]

(* the iteration from the current state updates the engine of the M4 *)
M4Updated(w) == w.sys.current_car = "M4" /\ ~w.sys.switching_cars

Watched(w, rider) ==
    LET updated == M4Updated(w)
        stayed == IF updated /\ m4.state = "IDLING"
                  THEN Min(rider.idle + Dt, M4_FULL_ACCEL_RESET_IDLE_TIME + 1)
                  ELSE rider.idle
    IN  [rider EXCEPT
            !.band = IF /\ updated
                        /\ m4.state \in {"IDLING", "PLAYFUL_REV"}
                        /\ M4InLcRange(Smoothed(w.sys.throttle_buffer))
                     THEN Min(@ + Dt, M4_LAUNCH_CONTROL_HOLD_DURATION)
                     ELSE 0,
            !.idle = IF w.m4.state = "IDLING" /\ m4.state # "IDLING"
                     THEN 0 ELSE stayed,
            !.rested = IF w.m4.state = "ACCELERATING"
                          /\ m4.state # "ACCELERATING"
                       THEN FALSE
                       ELSE @ \/ (m4.state = "IDLING"
                                  /\ stayed > M4_FULL_ACCEL_RESET_IDLE_TIME)]

(* an iteration of the loop with the watched rider at the pedal *)
WatchDrive ==
    \E raw \in RawLevels :
        /\ raw # LastRaw => env.moves > 0
        /\ LET w == MainLoopIteration(World, Dt, FALSE, raw)
           IN  /\ Becomes(w)
               /\ env' = Watched(w, [env EXCEPT
                             !.moves = IF raw # LastRaw THEN @ - 1 ELSE @])

(* A rider whose foot rests on the pedal: the levels read are about the    *)
(* deadzone and the significance thresholds of the gesture checks.         *)
NoiseLevels == {0, 60, 100, 120}

Fidget ==
    \E raw \in NoiseLevels :
        /\ MayFeed(raw)
        /\ Feed(raw, FALSE)

(* play_staged_rev called on the sound manager of the selected car, M4 or  *)
(* Supra: the arguments and the stage played (0: None was returned) of the *)
(* last call and of the call before it are kept; a stage of -1 stands for  *)
(* a call that was not made.                                               *)
NoCall == [rpm |-> 0, peak |-> 0, stage |-> -1]
Caller(plays) == [plays |-> plays, last |-> NoCall, before |-> NoCall]

(* current_rpm: between idle and the peak of the last stage, about the     *)
(* limits the selection compares it with                                   *)
M4RpmLevels ==
    {M4_RPM_IDLE, 1300, 1301, 2399, 2400, 3000, 3999, 4000, 5000, 6299, 6300,
     7000, 8500}
SupraRpmLevels ==
    {SUPRA_RPM_IDLE, 1400, 1401, 2799, 2800, 3500, 4399, 4400, 5500, 6749,
     6750, 7500, 9000}
(* gesture_peak_throttle: a significant peak, about the limits of the      *)
(* selection                                                               *)
GesturePeaks == {100, 101, 399, 400, 499, 500, 599, 600, 749, 750, 1000}

(* the stage whose clip the call started *)
StagePlayed(stages, started) ==
    LET played == {i \in 1..4 : stages[i].key \in started}
    IN  IF played = {} THEN 0 ELSE CHOOSE i \in played : TRUE

PlayStagedRev ==
    /\ env.plays > 0
    /\ IF sys.current_car = "M4"
       THEN /\ ~Busy(m4sm.channel_staged_rev)
            /\ \E rpm \in M4RpmLevels, peak \in GesturePeaks :
                  /\ m4sm' = M4SoundManager_play_staged_rev(
                                 [m4sm EXCEPT !.started = {}], rpm, peak)
                  /\ env' = [plays |-> env.plays - 1,
                             last |-> [rpm |-> rpm, peak |-> peak,
                                       stage |-> StagePlayed(M4_REV_STAGES,
                                                             m4sm'.started)],
                             before |-> env.last]
            /\ UNCHANGED suprasm
       ELSE /\ ~Busy(suprasm.channel_rev_sfx)
            /\ \E rpm \in SupraRpmLevels, peak \in GesturePeaks :
                  /\ suprasm' = SupraSoundManager_play_staged_rev(
                                    [suprasm EXCEPT !.started = {}], rpm, peak)
                  /\ env' = [plays |-> env.plays - 1,
                             last |-> [rpm |-> rpm, peak |-> peak,
                                       stage |-> StagePlayed(SUPRA_REV_STAGES,
                                                             suprasm'.started)],
                             before |-> env.last]
            /\ UNCHANGED m4sm
    /\ UNCHANGED <<sys, m4, supra, hellcat, hellcatsm>>

(* the mixer reaches the end of the rev clip *)
RevClipEnds ==
    /\ IF sys.current_car = "M4"
       THEN /\ Busy(m4sm.channel_staged_rev)
            /\ m4sm' = [m4sm EXCEPT
                          !.channel_staged_rev = AgeChannel(@, RevLen)]
            /\ UNCHANGED suprasm
       ELSE /\ Busy(suprasm.channel_rev_sfx)
            /\ suprasm' = [suprasm EXCEPT
                             !.channel_rev_sfx = AgeChannel(@, RevLen)]
            /\ UNCHANGED m4sm
    /\ UNCHANGED <<sys, m4, supra, hellcat, hellcatsm, env>>

(* A rider who keeps the pedal where it is: level is the raw throttle of   *)
(* every iteration to come; before is the state the last iteration found   *)
(* the M4 in, and steady tells that it left the throttle of the M4 as it   *)
(* was.                                                                    *)
Holder(level) == [level |-> level, before |-> "none", steady |-> FALSE]

(* the levels at which the pedal is held: released, at the lower limit of  *)
(* the light range of the Supra (0.10), in the launch band of the M4,      *)
(* between the limits of its re-acceleration (0.85) and of its             *)
(* deceleration (0.90), floored                                            *)
HoldLevels == {0, 100, 700, 870, 1000}

(* an iteration of the loop with the pedal held *)
HoldPedal ==
    /\ Becomes(MainLoopIteration(World, Dt, FALSE, env.level))
    /\ env' = [env EXCEPT
                  !.before = m4.state,
                  !.steady = (m4'.current_throttle = m4.current_throttle)]

(* The mode button and the globals of handle_button.  button_pressed_time *)
(* is the time since the press was detected (NoTime: None); pin is the     *)
(* level GPIO.input found last, pressed being TRUE; down counts the        *)
(* iterations in a row that found the button pressed; switch_requested is  *)
(* the value handle_button returned last; presses counts the presses the   *)
(* button may still be given.                                              *)
NoTime == -1
Presser(presses) ==
    [presses |-> presses, button_pressed_time |-> NoTime,
     last_button_state |-> FALSE, running_script |-> TRUE,
     pin |-> FALSE, down |-> 0, switch_requested |-> FALSE]

(* time.time() has advanced by dt *)
ButtonElapse(g, dt) ==
    [g EXCEPT !.button_pressed_time =
                  IF @ = NoTime THEN @ ELSE Older(@, dt, BUTTON_LONG_PRESS_TIME)]

(* handle_button holding a long press for a short one *)
handle_button_untimed(g, current_button_state) ==
    LET seen == [g EXCEPT !.last_button_state = current_button_state]
        press_duration == g.button_pressed_time
    IN  IF current_button_state /\ ~g.last_button_state
        THEN [ret |-> FALSE, g |-> [seen EXCEPT !.button_pressed_time = 0]]
        ELSE IF ~current_button_state /\ g.last_button_state
                /\ g.button_pressed_time # NoTime
        THEN IF press_duration >= BUTTON_DEBOUNCE_TIME
             THEN [ret |-> TRUE,
                   g |-> [seen EXCEPT !.button_pressed_time = NoTime]]
             ELSE [ret |-> FALSE,
                   g |-> [seen EXCEPT !.button_pressed_time = NoTime]]
        ELSE [ret |-> FALSE, g |-> seen]

(* handle_button(): [ret, g] is the value returned and the globals after *)
handle_button(g, current_button_state) ==
    LET seen == [g EXCEPT !.last_button_state = current_button_state]
        press_duration == g.button_pressed_time
    IN  IF current_button_state /\ ~g.last_button_state
        THEN [ret |-> FALSE, g |-> [seen EXCEPT !.button_pressed_time = 0]]
        ELSE IF ~current_button_state /\ g.last_button_state
                /\ g.button_pressed_time # NoTime
        THEN IF press_duration >= BUTTON_LONG_PRESS_TIME
             THEN [ret |-> FALSE,
                   g |-> [seen EXCEPT !.running_script = FALSE,
                                      !.button_pressed_time = NoTime]]
             ELSE IF press_duration >= BUTTON_DEBOUNCE_TIME
             THEN [ret |-> TRUE,
                   g |-> [seen EXCEPT !.button_pressed_time = NoTime]]
             ELSE [ret |-> FALSE,
                   g |-> [seen EXCEPT !.button_pressed_time = NoTime]]
        ELSE [ret |-> FALSE, g |-> seen]

(* an iteration of the main loop, the pedal left alone: handle_button      *)
(* reads the pin, switch_car is called if it returns True, and the system  *)
(* is updated; the loop ends once running_script is False                  *)
PollButton ==
    \E level \in BOOLEAN :
        /\ env.running_script
        /\ (level /\ ~env.pin) => env.presses > 0
        /\ (level /\ env.pin) => env.down < MaxHeldTicks
        /\ LET r == handle_button(ButtonElapse(env, Dt), level)
           IN  /\ Becomes(MainLoopIteration(World, Dt, r.ret, 0))
               /\ env' = [r.g EXCEPT
                             !.pin = level,
                             !.down = IF level THEN env.down + 1 ELSE 0,
                             !.presses = IF level /\ ~env.pin
                                         THEN @ - 1 ELSE @,
                             !.switch_requested = r.ret]

(* A rider who taps the pedal: down for one iteration (Tap), up in the     *)
(* next (Lift), at most MaxTaps times, each tap as soon as the lockout of  *)
(* the last one is over or up to MaxWait iterations later.  choice is the  *)
(* clip random.choice picks should the iteration call play_simple_rev.     *)
Tapper(taps) == [taps |-> taps, waited |-> 0]

TapClips == {"rev_1", "rev_2"}

Tapped(raw, choice, rider) ==
    /\ Becomes(MainLoopIteration(
                   [World EXCEPT !.hellcatsm.rev_choice = choice],
                   Dt, FALSE, raw))
    /\ env' = rider

(* the lockout of the Hellcat is over in the coming iteration *)
TapCounts == Nearer(hellcat.rev_lockout_until, Dt) = 0

Tap ==
    /\ LastRaw = 0
    /\ env.taps > 0
    /\ TapCounts
    /\ Tapped(1000, hellcatsm.rev_choice,
              [env EXCEPT !.taps = @ - 1, !.waited = 0])

Lift ==
    \E choice \in TapClips :
        /\ LastRaw > 0
        /\ Tapped(0, choice, env)

Wait ==
    /\ LastRaw = 0
    /\ env.taps = 0 \/ ~TapCounts \/ env.waited < MaxWait
    /\ Tapped(0, hellcatsm.rev_choice,
              [env EXCEPT !.waited =
                  IF env.taps > 0 /\ TapCounts THEN @ + 1 ELSE @])

(* The floats of the throttle conditioning: IEEE 754 binary64 values that *)
(* are zero or positive and normal.  m is the significand, most            *)
(* significant bit first, Precision bits of which the first is 1; e is the *)
(* exponent of its last bit; zero has no bits.  Every operation rounds the *)
(* exact result to the nearest value, ties to even.                        *)
Precision == 53
(* zero bits appended to a dividend so that the quotient has more than *)
(* Precision bits *)
Spare == 72

Zeros(n) == [i \in 1..n |-> 0]
FloatZero == [m |-> << >>, e |-> 0]
FloatOne == [m |-> << 1 >> \o Zeros(Precision - 1), e |-> 1 - Precision]

RECURSIVE Binary(_)
Binary(n) == IF n = 0 THEN << >> ELSE Append(Binary(n \div 2), n % 2)

(* bits without the zeros it begins with *)
StripZeros(bits) ==
    IF \A i \in DOMAIN bits : bits[i] = 0 THEN << >>
    ELSE LET first == CHOOSE i \in DOMAIN bits :
                          bits[i] = 1 /\ \A j \in 1..(i - 1) : bits[j] = 0
         IN  SubSeq(bits, first, Len(bits))

(* bits + 1 *)
Increment(bits) ==
    IF \A i \in DOMAIN bits : bits[i] = 1 THEN << 1 >> \o Zeros(Len(bits))
    ELSE LET last == CHOOSE i \in DOMAIN bits :
                         bits[i] = 0
                         /\ \A j \in (i + 1)..Len(bits) : bits[j] = 1
         IN  [i \in DOMAIN bits |->
                 IF i < last THEN bits[i] ELSE IF i = last THEN 1 ELSE 0]

(* the float nearest to bits * 2^e (plus a fraction of the last bit if *)
(* sticky)                                                              *)
RoundBits(bits, e, sticky) ==
    LET b == StripZeros(bits)
        n == Len(b)
        kept == SubSeq(b, 1, Precision)
        more == sticky \/ \E i \in (Precision + 2)..n : b[i] = 1
        up == b[Precision + 1] = 1 /\ (more \/ kept[Precision] = 1)
        r == IF up THEN Increment(kept) ELSE kept
    IN  IF b = << >> THEN FloatZero
        ELSE IF n <= Precision
        THEN [m |-> b \o Zeros(Precision - n), e |-> e - (Precision - n)]
        ELSE IF Len(r) > Precision
        THEN [m |-> SubSeq(r, 1, Precision), e |-> e + (n - Precision) + 1]
        ELSE [m |-> r, e |-> e + (n - Precision)]

(* bits, eight to a digit: the digits of the same number to the base 256, *)
(* and back                                                               *)
Bytes(bits) ==
    LET p == Zeros((8 - (Len(bits) % 8)) % 8) \o bits
    IN  [j \in 1..(Len(p) \div 8) |->
            128 * p[8 * j - 7] + 64 * p[8 * j - 6] + 32 * p[8 * j - 5]
            + 16 * p[8 * j - 4] + 8 * p[8 * j - 3] + 4 * p[8 * j - 2]
            + 2 * p[8 * j - 1] + p[8 * j]]
Unbytes(bytes) ==
    [i \in 1..(8 * Len(bytes)) |->
        (bytes[((i - 1) \div 8) + 1] \div (2 ^ (7 - ((i - 1) % 8)))) % 2]

(* long division by d of a number to the base 256, from digit j on, with *)
(* r carried in: the digits of the quotient, and the remainder after     *)
(* them                                                                  *)
RECURSIVE DivideBytes(_, _, _, _)
DivideBytes(bytes, j, d, r) ==
    LET x == 256 * r + bytes[j]
    IN  IF j > Len(bytes) THEN << r >>
        ELSE << x \div d >> \o DivideBytes(bytes, j + 1, d, x % d)

(* the float nearest to the quotient res was divided out as, in units of *)
(* 2^e                                                                    *)
RoundQuotient(res, e) ==
    RoundBits(Unbytes(SubSeq(res, 1, Len(res) - 1)), e, res[Len(res)] # 0)

(* x + y of two bit strings of one length: a carry enters bit i from the *)
(* nearest bit below it where x and y agree, if they are 1 there         *)
AddBits(x, y) ==
    LET n == Len(x)
        Agree(i) == {j \in (i + 1)..n : x[j] = y[j]}
        Carry(i) ==
            IF Agree(i) = {} THEN 0
            ELSE x[CHOOSE j \in Agree(i) : \A k \in Agree(i) : j <= k]
    IN  << Carry(0) >> \o [i \in 1..n |-> (x[i] + y[i] + Carry(i)) % 2]

(* n / d of two ints, 0 <= n and 0 < d *)
FloatQuotient(n, d) ==
    RoundQuotient(DivideBytes(Bytes(Binary(n) \o Zeros(Spare)), 1, d, 0),
                  0 - Spare)

(* a + b *)
FloatAdd(a, b) ==
    LET e == Min(a.e, b.e)
        x == a.m \o Zeros(a.e - e)
        y == b.m \o Zeros(b.e - e)
        n == Max(Len(x), Len(y))
    IN  IF a = FloatZero THEN b
        ELSE IF b = FloatZero THEN a
        ELSE RoundBits(AddBits(Zeros(n - Len(x)) \o x,
                               Zeros(n - Len(y)) \o y), e, FALSE)

(* a / d for an int d > 0 that a float holds exactly *)
FloatDivide(a, d) ==
    IF a = FloatZero THEN FloatZero
    ELSE RoundQuotient(DivideBytes(Bytes(a.m \o Zeros(Spare)), 1, d, 0),
                       a.e - Spare)

(* a <= b *)
FloatLeq(a, b) ==
    IF a = FloatZero THEN TRUE
    ELSE IF b = FloatZero THEN FALSE
    ELSE IF a.e # b.e THEN a.e < b.e
    ELSE \/ a.m = b.m
         \/ \E i \in 1..Precision :
                /\ a.m[i] < b.m[i]
                /\ \A j \in 1..(i - 1) : a.m[j] = b.m[j]

(* sum(buffer): 0 + buffer[1] + ... + buffer[n], from the left *)
RECURSIVE FloatSum(_)
FloatSum(buffer) ==
    IF buffer = << >> THEN FloatZero
    ELSE FloatAdd(FloatSum(SubSeq(buffer, 1, Len(buffer) - 1)),
                  buffer[Len(buffer)])

MIN_ADC_VALUE == 15823
MAX_ADC_VALUE == 65535

get_throttle_percentage_from_adc(raw_adc_value) ==
    LET clamped_value ==
            Max(MIN_ADC_VALUE, Min(raw_adc_value, MAX_ADC_VALUE))
    IN  FloatQuotient(clamped_value - MIN_ADC_VALUE,
                      MAX_ADC_VALUE - MIN_ADC_VALUE)

(* the same sample in the thousandths the engines are modelled in *)
ThrottleThousandths(raw_adc_value) ==
    LET clamped_value ==
            Max(MIN_ADC_VALUE, Min(raw_adc_value, MAX_ADC_VALUE))
    IN  ((clamped_value - MIN_ADC_VALUE) * 1000)
            \div (MAX_ADC_VALUE - MIN_ADC_VALUE)

(* The ADC read MaxReads times, each reading any of AdcLevels: below the   *)
(* calibrated range, its two ends, inside it and above it.  window is the  *)
(* throttle buffer and smoothed the mean update() computes from it, as the *)
(* floats they are.                                                        *)
AdcLevels == {0, MIN_ADC_VALUE, 15826, 40000, MAX_ADC_VALUE, 70000}

Reader(reads) ==
    [reads |-> reads, adc |-> MIN_ADC_VALUE,
     window |-> [i \in 1..THROTTLE_SMOOTHING_WINDOW_SIZE |-> FloatZero],
     smoothed |-> FloatZero]

Conditioned(adc, buffer) ==
    [reads |-> env.reads - 1, adc |-> adc, window |-> buffer,
     smoothed |-> FloatDivide(FloatSum(buffer), Len(buffer))]

ReadAdc ==
    \E raw_adc \in AdcLevels :
        /\ env.reads > 0
        /\ Becomes(MainLoopIteration(World, Dt, FALSE,
                                     ThrottleThousandths(raw_adc)))
        /\ env' = Conditioned(
                      raw_adc,
                      Append(Tail(env.window),
                             get_throttle_percentage_from_adc(raw_adc)))

(* Scenario A.  The pedal rises from 0 to BlipPeak in BlipRamp ms and     *)
(* falls back to 0 in BlipRamp ms; the loop reads it every Dt, the first   *)
(* reading at any of BlipPhases into the rise.  trail is the sequence of   *)
(* states the M4 has gone through, revs the number of staged-rev clips     *)
(* started.                                                                *)
BlipPeak == 320
BlipRamp == 150
BlipPhases == {t \in 1..Dt : t % 10 = 0}

BlipAt(t) ==
    IF t <= 0 \/ t >= 2 * BlipRamp THEN 0
    ELSE IF t <= BlipRamp THEN (BlipPeak * t) \div BlipRamp
    ELSE (BlipPeak * (2 * BlipRamp - t)) \div BlipRamp

Blipper(phase) == [clock |-> phase, revs |-> 0, trail |-> << "IDLING" >>]

ScenarioLands(w) ==
    /\ Becomes(w)
    /\ env' = [clock |-> env.clock + Dt,
               revs |-> env.revs + (IF RevStarted(w) THEN 1 ELSE 0),
               trail |-> IF w.m4.state # env.trail[Len(env.trail)]
                         THEN Append(env.trail, w.m4.state)
                         ELSE env.trail]

ScenarioTick ==
    /\ env.clock < ScenarioEnd
    /\ ScenarioLands(MainLoopIteration(World, Dt, FALSE, BlipAt(env.clock)))

(* set_idle_target_volume with volumes in and out of range, a hundredth    *)
(* and less apart, and the steps of the fade between them.                 *)
IdleVolumes == {-100, 0, 150, 155, 165, 700, 1000, 1200}

SetIdleTarget ==
    \E target_volume \in IdleVolumes, instant \in BOOLEAN :
        /\ m4sm' = M4SoundManager_set_idle_target_volume(
                       m4sm, target_volume, instant)
        /\ UNCHANGED <<sys, m4, supra, suprasm, hellcat, hellcatsm, env>>

FadeIdle ==
    /\ m4sm' = M4SoundManager_update_idle_fade(m4sm, Dt)
    /\ UNCHANGED <<sys, m4, supra, suprasm, hellcat, hellcatsm, env>>

(* the states the program may be in when the rider takes over *)
Setting(journeys, rider) ==
    {[world |-> Reached[j], rider |-> rider] : j \in journeys}

Begin(settings) ==
    \E c \in settings :
        /\ Starts(c.world)
        /\ env = c.rider

M4Settings == Setting({"M4Idling"}, Rider(MaxMoves, 0, FALSE))
SupraSettings == Setting({"SupraIdle"}, Rider(MaxMoves, 0, FALSE))
HellcatSettings ==
    Setting({"HellcatIdle", "HellcatSecondGear"}, Rider(1, 0, FALSE))
(* blips: many moves of the pedal, each kept short *)
RevSettings ==
    Setting({"M4Idling", "SupraIdle", "HellcatIdle"},
            Rider(MaxBlipMoves, 0, TRUE))
(* a press of the button, with one move of the pedal before or after it *)
SwitchSettings ==
    Setting({"PowerUp", "M4Idling", "SupraIdle", "HellcatIdle",
             "HellcatParked"},
            Rider(1, MaxPresses, FALSE))
(* the Supra selected and off, the Hellcat left behind at speed: a press   *)
(* of the button selects the Hellcat again                                 *)
ParkedSettings == Setting({"HellcatParked"}, Rider(0, MaxPresses, FALSE))
(* presses of the button one after the other, the pedal left alone *)
PressSettings ==
    Setting({"M4Idling", "SupraIdle", "HellcatParked"},
            Rider(0, MaxRepeatPresses, FALSE))
(* the Hellcat idling, its rev clips told apart, and a rider who taps *)
QueueSettings == Setting({"HellcatRevClips"}, Tapper(MaxTaps))
(* the M4 idling, before the button is touched *)
ButtonSettings == Setting({"M4Idling"}, Presser(MaxButtonPresses))
(* the M4 idling, the M4 in a full acceleration and the Supra idling, the  *)
(* pedal held at one level from then on                                    *)
HoldSettings ==
    UNION {Setting({"M4Idling", "M4Accelerating", "SupraIdle"}, Holder(level)) :
               level \in HoldLevels}
(* the Hellcat idling with a rev clip playing and a request queued *)
QueuedSettings == Setting({"HellcatRevQueued"}, Rider(MaxQueuedMoves, 0, FALSE))
(* the Hellcat idling in second and in third gear *)
GearboxSettings ==
    Setting({"HellcatSecondGear", "HellcatThirdGear", "HellcatFifthGear"},
            Rider(MaxGearMoves, 0, FALSE))
(* the M4 idling, the M4 selected again with the launch timer primed, and  *)
(* the M4 in a full acceleration                                           *)
WatchSettings ==
    Setting({"M4Idling"}, Watcher(MaxWatchMoves))
        \cup Setting({"M4Primed"}, Watcher(1))
        \cup Setting({"M4Accelerating"},
                     [Watcher(MaxWatchMoves) EXCEPT !.rested = FALSE])
(* each car idling, the foot resting on the pedal *)
NoiseSettings ==
    Setting({"M4Idling", "SupraIdle", "HellcatIdle"},
            Rider(MaxNoiseMoves, 0, FALSE))
(* the M4 and the Supra idling, before the calls of play_staged_rev *)
StageSettings == Setting({"M4Idling", "SupraIdle"}, Caller(MaxPlays))
(* each car selected and off, with and without its starter clip *)
StartSettings ==
    Setting({"PowerUp", "SupraOff", "HellcatOff"} \cup StarterMissing,
            Rider(MaxStartMoves, 0, FALSE))
(* the M4 idling with clips missing *)
MissingSettings == Setting(DOMAIN M4Missing, Rider(2, 0, FALSE))

Init ==
    Begin(M4Settings \cup SupraSettings \cup HellcatSettings
          \cup RevSettings \cup ParkedSettings)

Next == Drive \/ Release \/ Coast \/ ButtonSwitch
NextCar == Drive \/ Release \/ Coast
NextSwitch == Drive \/ ButtonSwitch
NextTaps == Tap \/ Lift \/ Wait
NextButton == PollButton
NextHold == HoldPedal
NextIdleVolume == SetIdleTarget \/ FadeIdle
NextScenarioA == ScenarioTick
NextThrottle == ReadAdc
NextWatch == WatchDrive
NextNoise == Fidget
NextStages == PlayStagedRev \/ RevClipEnds

Spec == Init /\ [][Next]_vars
SpecM4 == Begin(M4Settings) /\ [][NextCar]_vars
SpecSupra == Begin(SupraSettings) /\ [][NextCar]_vars
SpecHellcat == Begin(HellcatSettings) /\ [][NextCar]_vars
SpecRev == Begin(RevSettings) /\ [][NextCar]_vars
SpecSwitch == Begin(SwitchSettings) /\ [][NextSwitch]_vars
SpecMissing == Begin(MissingSettings) /\ [][NextCar]_vars
SpecPresses == Begin(PressSettings) /\ [][NextSwitch]_vars
SpecQueue == Begin(QueueSettings) /\ [][NextTaps]_vars
SpecButton == Begin(ButtonSettings) /\ [][NextButton]_vars
SpecHold == Begin(HoldSettings) /\ [][NextHold]_vars
SpecQueued == Begin(QueuedSettings) /\ [][NextCar]_vars
SpecScenarioA ==
    (\E phase \in BlipPhases :
         Begin(Setting({"M4Idling"}, Blipper(phase))))
        /\ [][NextScenarioA]_vars
SpecThrottle ==
    Begin(Setting({"PowerUp"}, Reader(MaxReads))) /\ [][NextThrottle]_vars
SpecIdleVolume ==
    Begin(Setting({"M4Idling"}, Rider(0, 0, FALSE)))
        /\ [][NextIdleVolume]_vars
SpecGearbox == Begin(GearboxSettings \cup ParkedSettings) /\ [][Next]_vars
SpecWatch == Begin(WatchSettings) /\ [][NextWatch]_vars
SpecNoise == Begin(NoiseSettings) /\ [][NextNoise]_vars
SpecStart == Begin(StartSettings) /\ [][NextNoise]_vars
SpecStages == Begin(StageSettings) /\ [][NextStages]_vars

---------------------------------------------------------------------------
(* Properties of the M4.                                                   *)

M4DriveStates == {"LAUNCH_HOLD", "ACCELERATING", "CRUISING", "DECELERATING"}

(* C1: on an iteration of the loop that leaves a long-sequence voice of    *)
(* the M4 busy or a long-sequence crossfade in progress, no gesture is     *)
(* resolved (no staged rev clip is started, the lockout is not set, the    *)
(* state does not become PLAYFUL_REV) and no gesture window is left open.  *)
C1_NoGestureWhileLongSequenceBusy ==
    [][M4SoundManager_is_long_sequence_busy(m4sm') =>
          /\ m4sm'.started \cap M4_REV_KEYS = {}
          /\ m4'.gesture_lockout_until_time # M4_GESTURE_RETRIGGER_LOCKOUT
          /\ m4'.state = "PLAYFUL_REV" => m4.state = "PLAYFUL_REV"
          /\ ~m4'.in_potential_gesture]_vars

(* the part of C1 about resolution alone: with a long-sequence voice busy  *)
(* no rev clip is started, no lockout set and PLAYFUL_REV is not entered   *)
M4NoResolutionWhileLongSequenceBusy ==
    [][M4SoundManager_is_long_sequence_busy(m4sm') =>
          /\ m4sm'.started \cap M4_REV_KEYS = {}
          /\ m4'.gesture_lockout_until_time # M4_GESTURE_RETRIGGER_LOCKOUT
          /\ m4'.state = "PLAYFUL_REV" => m4.state = "PLAYFUL_REV"]_vars

(* C4: in LAUNCH_HOLD entered with the raw throttle at 0.70 (the hold     *)
(* loop already plays), with the raw throttle then set to 1.0 and kept     *)
(* there (the samples of the moving average are 0.70s followed by 1.0s),   *)
(* the state stays LAUNCH_HOLD or becomes ACCELERATING: IDLING is not      *)
(* passed through.                                                         *)
C4_LaunchHoldToAcceleratingDirectly ==
    [][(/\ m4.state = "LAUNCH_HOLD"
        /\ m4sm.channel_turbo_limiter_sfx.sound = "launch_control_hold_loop"
        /\ \A i \in 1..THROTTLE_SMOOTHING_WINDOW_SIZE :
              sys'.throttle_buffer[i] \in {700, 1000}
        /\ \A i \in 1..(THROTTLE_SMOOTHING_WINDOW_SIZE - 1) :
              sys'.throttle_buffer[i] <= sys'.throttle_buffer[i + 1]
        /\ sys'.throttle_buffer[THROTTLE_SMOOTHING_WINDOW_SIZE] = 1000)
       => m4'.state \in {"LAUNCH_HOLD", "ACCELERATING"}]_vars

(* C7: at the end of an iteration that leaves the M4 in LAUNCH_HOLD,       *)
(* ACCELERATING, CRUISING or DECELERATING no gesture window is open.       *)
C7_NoGestureWindowWhileDriving ==
    m4.state \in M4DriveStates => ~m4.in_potential_gesture

(* C8: a long-sequence clip of the M4 is started only in an iteration that *)
(* ends in the clip's drive state: the acceleration clip in ACCELERATING,  *)
(* the cruise loop in CRUISING, the deceleration clip in DECELERATING.     *)
C8_LongClipOnlyInItsState ==
    /\ "accel_gears" \in m4sm.started => m4.state = "ACCELERATING"
    /\ "cruising" \in m4sm.started => m4.state = "CRUISING"
    /\ "decel_downshifts" \in m4sm.started => m4.state = "DECELERATING"

M4SfxVoice == m4sm.channel_turbo_limiter_sfx

(* C5: while IDLING, the throttle seen by the M4 at 0.70 with the time in  *)
(* the launch band reaching 0.5 s makes the state LAUNCH_HOLD and starts   *)
(* the engage clip on the SFX voice; the hold loop is started only in an   *)
(* iteration in which the engage clip has run out; at the end of every     *)
(* iteration that leaves the state LAUNCH_HOLD the SFX voice carries the   *)
(* engage clip or the hold loop and the idle volume is 0.05, target and    *)
(* current.                                                                *)
C5_LaunchHoldEngages ==
    [][/\ (/\ m4.state = "IDLING"
           /\ Smoothed(sys'.throttle_buffer) = 700
           /\ m4.time_in_launch_control_range + Dt
                  >= M4_LAUNCH_CONTROL_HOLD_DURATION)
          => /\ m4'.state = "LAUNCH_HOLD"
             /\ "launch_control_engage" \in m4sm'.started
             /\ M4SfxVoice'.sound = "launch_control_engage"
       /\ "launch_control_hold_loop" \in m4sm'.started
          => AgeChannel(M4SfxVoice, Dt).sound # "launch_control_engage"
       /\ m4'.state = "LAUNCH_HOLD"
          => /\ M4SfxVoice'.sound \in {"launch_control_engage",
                                       "launch_control_hold_loop"}
             /\ m4sm'.idle_current_volume
                    = M4_VERY_LOW_IDLE_VOLUME_DURING_LAUNCH
             /\ m4sm'.idle_target_volume
                    = M4_VERY_LOW_IDLE_VOLUME_DURING_LAUNCH]_vars

(* the hold loop has taken over from the engage clip in LAUNCH_HOLD *)
C5_Witness ==
    /\ m4.state = "LAUNCH_HOLD"
    /\ M4SfxVoice.sound = "launch_control_hold_loop"
    /\ m4.current_throttle = 700

(* C10: from IDLING with no recent full acceleration, the throttle seen by *)
(* the M4 at or above 0.98 for 1.5 s makes the state ACCELERATING; with    *)
(* the throttle kept there the state then only goes on to CRUISING and     *)
(* ACCELERATING is not entered again; in the entering iteration the idle   *)
(* volume becomes 0 at once and the staged rev voice and the SFX voice     *)
(* are silent.                                                             *)
C10_SustainedFullThrottle ==
    [][/\ (/\ m4.state = "IDLING"
           /\ ~m4.played_full_accel_sequence_recently
           /\ Smoothed(sys'.throttle_buffer) >= 980
           /\ m4.time_at_100_throttle + Dt >= M4_SUSTAINED_100_THROTTLE_TIME)
          => m4'.state = "ACCELERATING"
       /\ (/\ m4.state \in {"ACCELERATING", "CRUISING"}
           /\ m4.current_throttle >= 980
           /\ m4'.current_throttle >= 980)
          => /\ m4'.state \in {"ACCELERATING", "CRUISING"}
             /\ m4.state = "CRUISING" => m4'.state = "CRUISING"
       /\ (m4.state \in {"IDLING", "PLAYFUL_REV"}
           /\ m4'.state = "ACCELERATING")
          => /\ m4sm'.idle_current_volume = 0
             /\ ~Busy(m4sm'.channel_staged_rev)
             /\ ~Busy(m4sm'.channel_turbo_limiter_sfx)]_vars

(* the iteration that enters ACCELERATING after 1.5 s at full throttle *)
C10_Witness ==
    /\ m4.state = "ACCELERATING"
    /\ m4.current_throttle >= 980
    /\ m4.time_at_100_throttle = 0
    /\ m4sm.idle_current_volume = 0
    /\ Len(m4sm.pending_offset_sounds) = 1
    /\ m4sm.pending_offset_sounds[1].due = M4_ACCELERATION_SOUND_OFFSET

(* C11: a transition of the M4 whose guard holds is taken even when the    *)
(* clip it would play is missing: from IDLING, the throttle seen by the M4 *)
(* in the launch band with the time in the band reaching 0.5 s makes the   *)
(* state LAUNCH_HOLD, and the throttle at or above 0.98 for 1.5 s with no  *)
(* recent full acceleration makes it ACCELERATING.                         *)
C11_AdvancesWithoutClips ==
    [][/\ (/\ m4.state = "IDLING"
           /\ M4InLcRange(Smoothed(sys'.throttle_buffer))
           /\ m4.time_in_launch_control_range + Dt
                  >= M4_LAUNCH_CONTROL_HOLD_DURATION
           /\ ~M4SoundManager_is_launch_control_active(m4sm))
          => m4'.state = "LAUNCH_HOLD"
       /\ (/\ m4.state = "IDLING"
           /\ ~m4.played_full_accel_sequence_recently
           /\ Smoothed(sys'.throttle_buffer) >= 980
           /\ m4.time_at_100_throttle + Dt >= M4_SUSTAINED_100_THROTTLE_TIME)
          => m4'.state = "ACCELERATING"]_vars

(* the part of C11 about the acceleration clip alone *)
M4AcceleratesWithoutClip ==
    [][(/\ m4.state = "IDLING"
        /\ "accel_gears" \notin m4sm.sounds
        /\ ~m4.played_full_accel_sequence_recently
        /\ Smoothed(sys'.throttle_buffer) >= 980
        /\ m4.time_at_100_throttle + Dt >= M4_SUSTAINED_100_THROTTLE_TIME)
       => m4'.state = "ACCELERATING"]_vars

(* the M4 has gone through ACCELERATING without its clip and cruises *)
M4CruisesWithoutClip ==
    m4.state = "CRUISING" /\ "accel_gears" \notin m4sm.sounds

(* with no clip loaded the M4 is back in IDLING after a full acceleration *)
M4BackToIdleWithoutClips ==
    /\ m4sm.sounds = {}
    /\ m4.state = "IDLING"
    /\ m4.played_full_accel_sequence_recently

---------------------------------------------------------------------------
(* Properties of the three cars.                                           *)

(* C2: after every iteration of the loop the simulated RPM of each car     *)
(* lies between its idle RPM and its redline: 750..6200 for the Hellcat,   *)
(* from 800 for the M4 and from 900 for the Supra up to the peak of the    *)
(* highest rev stage (8500 and 9000).                                      *)
C2_RpmWithinBounds ==
    /\ HELLCAT_IDLE_RPM <= hellcat.simulated_rpm
    /\ hellcat.simulated_rpm <= HELLCAT_REDLINE_RPM
    /\ M4_RPM_IDLE <= m4.simulated_rpm
    /\ m4.simulated_rpm <= M4_REV_STAGES[4].rpm_peak
    /\ SUPRA_RPM_IDLE <= supra.simulated_rpm
    /\ supra.simulated_rpm <= SUPRA_REV_STAGES[4].rpm_peak

(* the Hellcat has just shifted down, above its idle RPM *)
C2_Witness ==
    /\ "downshift" \in hellcatsm.started
    /\ hellcat.simulated_gear = 1
    /\ hellcat.simulated_rpm > HELLCAT_IDLE_RPM

(* the states C2 is about that its witness does not show *)
C2_Upshifted ==
    "upshift" \in hellcatsm.started /\ hellcat.simulated_gear = 2
C2_SwitchReset ==
    /\ sys.current_car = "Hellcat"
    /\ hellcat.state = "ENGINE_OFF"
    /\ hellcat.simulated_gear = 1
    /\ hellcat.simulated_rpm = HELLCAT_IDLE_RPM
    /\ m4.state = "ENGINE_OFF"
C2_M4TopStage == m4.simulated_rpm = M4_REV_STAGES[4].rpm_peak
C2_SupraTopStage == supra.simulated_rpm = SUPRA_REV_STAGES[4].rpm_peak

(* the engine state of a car, and the voices of its sound manager *)
EngineState(w, car) ==
    IF car = "M4" THEN w.m4.state
    ELSE IF car = "Supra" THEN w.supra.state
    ELSE w.hellcat.state

Voices(w, car) ==
    IF car = "M4"
    THEN {w.m4sm.channel_idle, w.m4sm.channel_turbo_limiter_sfx,
          w.m4sm.channel_staged_rev, w.m4sm.channel_long_A,
          w.m4sm.channel_long_B}
    ELSE IF car = "Supra"
    THEN {w.suprasm.channel_idle, w.suprasm.channel_driving_A,
          w.suprasm.channel_driving_B, w.suprasm.channel_rev_sfx}
    ELSE {w.hellcatsm.channel_idle, w.hellcatsm.channel_whine_low,
          w.hellcatsm.channel_accel_response,
          w.hellcatsm.channel_decel_burble, w.hellcatsm.channel_startup,
          w.hellcatsm.channel_shift_sfx}

IdleStates == {"IDLING", "IDLE"}

(* C3: in the iteration that completes a switch requested while the        *)
(* selected car was idling, every voice of the outgoing car ends not busy  *)
(* and the incoming car ends in ENGINE_OFF, whatever the throttle.         *)
C3_SwitchCompletes ==
    [][(/\ sys.switching_cars
        /\ ~sys'.switching_cars
        /\ EngineState(World, sys.current_car) \in IdleStates)
       => /\ \A ch \in Voices(World', sys.current_car) : ~Busy(ch)
          /\ EngineState(World', sys'.current_car) = "ENGINE_OFF"]_vars

(* the part of C3 about the outgoing car alone *)
OutgoingVoicesSilent ==
    [][(sys.switching_cars /\ ~sys'.switching_cars)
       => \A ch \in Voices(World', sys.current_car) : ~Busy(ch)]_vars

(* the cars whose engine an iteration has changed, the ageing of its time  *)
(* stamps apart                                                            *)
EnginesUpdated ==
    {car \in {"M4", "Supra", "Hellcat"} :
        CASE car = "M4" -> m4' # M4EngineSimulation_elapse(m4, Dt)
          [] car = "Supra" -> supra' # SupraEngineSimulation_elapse(supra, Dt)
          [] OTHER -> hellcat' # HellcatEngineSimulation_elapse(hellcat, Dt)}

(* the voices of every car have only played on, or faded on, for Dt *)
VoicesPlayOn ==
    /\ m4sm' = M4SoundManager_elapse(m4sm, Dt)
    /\ suprasm' = SupraSoundManager_elapse(suprasm, Dt)
    /\ hellcatsm' = HellcatSoundManager_elapse(hellcatsm, Dt)

(* the iteration has called switch_car(): the voices of the outgoing car   *)
(* fade out, the others play on                                            *)
VoicesFadeOut ==
    /\ m4sm' = IF sys.current_car = "M4"
               THEN M4SoundManager_fade_out_all_sounds(
                        M4SoundManager_elapse(m4sm, Dt),
                        SUPRA_CROSSFADE_DURATION_MS)
               ELSE M4SoundManager_elapse(m4sm, Dt)
    /\ suprasm' = IF sys.current_car = "Supra"
                  THEN SupraSoundManager_fade_out_all_sounds(
                           SupraSoundManager_elapse(suprasm, Dt),
                           SUPRA_CROSSFADE_DURATION_MS)
                  ELSE SupraSoundManager_elapse(suprasm, Dt)
    /\ hellcatsm' = IF sys.current_car = "Hellcat"
                    THEN HellcatSoundManager_fade_out_all_sounds(
                             HellcatSoundManager_elapse(hellcatsm, Dt),
                             SUPRA_CROSSFADE_DURATION_MS)
                    ELSE HellcatSoundManager_elapse(hellcatsm, Dt)

(* C12: an iteration of the loop that leaves a switch in progress updates  *)
(* no engine: state, RPM, gear and gesture fields of every car are as      *)
(* before and the voices only play or fade on, whatever the throttle,      *)
(* while the throttle sample is appended to the smoothing buffer; and no   *)
(* iteration updates more than one engine.                                 *)
C12_NoEngineUpdateWhileSwitching ==
    [][/\ sys'.switching_cars
          => /\ EnginesUpdated = {}
             /\ IF sys.switching_cars THEN VoicesPlayOn ELSE VoicesFadeOut
             /\ \E raw \in RawLevels :
                   sys'.throttle_buffer = Append(Tail(sys.throttle_buffer), raw)
       /\ Cardinality(EnginesUpdated) <= 1]_vars

(* the pedal has been pushed down during the switch away from the idling   *)
(* M4, which has not seen it                                               *)
C12_Witness ==
    /\ sys.switching_cars
    /\ sys.current_car = "M4"
    /\ sys.switch_start_time > 0
    /\ LastRaw > 0
    /\ sys.throttle_buffer[1] = 0
    /\ m4.state = "IDLING"
    /\ m4.current_throttle = 0
    /\ m4.throttle_history = << 0, 0 >>

(* C13: switch_car() called while a switch is in progress changes         *)
(* nothing: the iteration ends as it would have without the press of the   *)
(* button (same current_car, same switch_start_time, same voices, nothing  *)
(* queued) and current_car_index is not advanced a second time.            *)
C13_PressIgnoredWhileSwitching ==
    [][(sys.switching_cars /\ env'.presses < env.presses)
       => /\ sys'.current_car_index = sys.current_car_index
          /\ World' = MainLoopIteration(World, Dt, FALSE, LastRaw')]_vars

(* two presses of the button, and the switch away from the M4 that the     *)
(* first one started is still in progress                                  *)
C13_Witness ==
    /\ sys.switching_cars
    /\ sys.current_car = "M4"
    /\ sys.current_car_index = 1
    /\ sys.switch_start_time > 0
    /\ env.presses = MaxRepeatPresses - 2

Successor(car) ==
    CASE car = "M4" -> "Supra" [] car = "Supra" -> "Hellcat" [] OTHER -> "M4"

(* current_car is one of the three cars: the one current_car_index names   *)
(* when no switch is in progress, the one before it while one is           *)
SelectionConsistent ==
    /\ sys.current_car \in {"M4", "Supra", "Hellcat"}
    /\ sys.current_car_index \in 0..(Len(CARS) - 1)
    /\ IF sys.switching_cars
       THEN Successor(sys.current_car) = CARS[sys.current_car_index + 1]
       ELSE sys.current_car = CARS[sys.current_car_index + 1]

(* C14: current_car is always exactly one of M4, Supra and Hellcat; with   *)
(* no switch in progress it is cars[current_car_index], with one in        *)
(* progress it is still the outgoing car; it changes only in the           *)
(* iteration that completes a switch, and then to its successor in the     *)
(* cycle M4 -> Supra -> Hellcat -> M4.                                     *)
C14_Rotation ==
    [][/\ SelectionConsistent
       /\ SelectionConsistent'
       /\ sys'.current_car # sys.current_car
          => sys.switching_cars /\ ~sys'.switching_cars
       /\ (sys.switching_cars /\ ~sys'.switching_cars)
          => sys'.current_car = Successor(sys.current_car)]_vars

(* a switch from the Hellcat has completed: the M4 is selected again *)
C14_Witness ==
    /\ sys.current_car = "M4"
    /\ sys.current_car_index = 0
    /\ ~sys.switching_cars
    /\ sys.switch_start_time < SUPRA_CROSSFADE_DURATION_MS + Dt
    /\ hellcat.state = "IDLE"
    /\ env.presses = 0

(* the other two switches complete as well *)
C14_SupraSelected ==
    /\ sys.current_car = "Supra" /\ ~sys.switching_cars /\ env.presses = 0
    /\ m4.state = "IDLING"
C14_HellcatSelected ==
    /\ sys.current_car = "Hellcat" /\ ~sys.switching_cars /\ env.presses = 0
    /\ supra.state = "IDLE"

(* the SFX voice of the Hellcat as an iteration of the loop finds it *)
HellcatSfxFound == AgeChannel(hellcatsm.channel_shift_sfx, Dt)

(* the rev clips of the Hellcat an iteration has started *)
HellcatRevsStarted == hellcatsm'.started \cap HELLCAT_REV_KEYS

(* the queue once the iteration has called _process_rev_queue *)
HellcatQueueProcessed ==
    IF Busy(HellcatSfxFound) THEN hellcatsm.rev_queue
    ELSE IF hellcatsm.rev_queue = << >> THEN << >>
    ELSE Tail(hellcatsm.rev_queue)

(* C15: the rev queue of the Hellcat never holds more than 3 requests; a   *)
(* request made while the SFX voice is busy is appended when fewer than 3  *)
(* are queued and is dropped otherwise, the queue left as it is; an        *)
(* iteration starts at most one rev clip, only when it finds the voice     *)
(* not busy, and with requests queued it starts the oldest of them.        *)
C15_RevQueue ==
    [][/\ Len(hellcatsm'.rev_queue) <= 3
       /\ Cardinality(HellcatRevsStarted) <= 1
       /\ HellcatRevsStarted # {} => ~Busy(HellcatSfxFound)
       /\ (~Busy(HellcatSfxFound) /\ hellcatsm.rev_queue # << >>)
          => HellcatRevsStarted = {Head(hellcatsm.rev_queue)}
       /\ IF GestureResolved(World') /\ Busy(hellcatsm'.channel_shift_sfx)
             /\ (HellcatRevsStarted = {} \/ hellcatsm.rev_queue # << >>)
          THEN hellcatsm'.rev_queue =
                   IF Len(HellcatQueueProcessed) < 3
                   THEN Append(HellcatQueueProcessed, hellcatsm'.rev_choice)
                   ELSE HellcatQueueProcessed
          ELSE hellcatsm'.rev_queue = HellcatQueueProcessed]_vars

(* a request has just been dropped: the clip the first tap started still  *)
(* plays, the requests of the next three are queued, in an order that      *)
(* tells them apart, and the gesture of the fifth has resolved             *)
C15_Witness ==
    /\ Len(hellcatsm.rev_queue) = 3
    /\ hellcatsm.rev_queue[1] # hellcatsm.rev_queue[2]
    /\ Busy(hellcatsm.channel_shift_sfx)
    /\ hellcatsm.channel_shift_sfx.rem
           <= LongRevLen - 4 * (HELLCAT_REV_LOCKOUT + Dt)
    /\ GestureResolved(World)
    /\ env.taps = MaxTaps - 5

(* the queue is being worked off: the second of three requests plays *)
C15_QueueWorkedOff ==
    /\ Len(hellcatsm.rev_queue) = 1
    /\ hellcatsm.started \cap HELLCAT_REV_KEYS # {}
    /\ env.taps = 0

(* the states of the M4 whose iteration calls set_idle_target_volume with *)
(* instant=True: on entering LAUNCH_HOLD or ACCELERATING, and at the top   *)
(* of the LAUNCH_HOLD, ACCELERATING, CRUISING and DECELERATING branches    *)
M4InstantStates == {"LAUNCH_HOLD", "ACCELERATING", "CRUISING", "DECELERATING"}
M4InstantCalled == m4.state \in M4InstantStates \/ m4'.state \in M4InstantStates

(* M4_IDLE_TRANSITION_SPEED * dt; the fade of an iteration runs before the *)
(* engine's state machine, toward the target the iteration began with     *)
M4IdleStep == (M4_IDLE_TRANSITION_SPEED * Dt) \div 1000
M4IdleChange == Abs(m4sm'.idle_current_volume - m4sm.idle_current_volume)

M4IdleStaysInRange == m4sm'.idle_current_volume \in 0..1000
M4IdleRampsUnlessInstant ==
    ~M4InstantCalled
    => /\ M4IdleChange <= M4IdleStep
       /\ m4sm'.idle_current_volume
              >= Min(m4sm.idle_current_volume, m4sm.idle_target_volume)
       /\ m4sm'.idle_current_volume
              <= Max(m4sm.idle_current_volume, m4sm.idle_target_volume)
M4IdleRestoredByRamp ==
    m4.state \in {"DECELERATING", "LAUNCH_HOLD"} /\ m4'.state = "IDLING"
    => M4IdleChange <= M4IdleStep

(* C17: on every iteration the idle current volume of the M4 stays in      *)
(* [0,1] and moves toward the target without overshooting it; it changes   *)
(* by more than M4_IDLE_TRANSITION_SPEED*dt only in an iteration that      *)
(* calls set_idle_target_volume with instant=True; and the transitions     *)
(* DECELERATING -> IDLING and LAUNCH_HOLD -> IDLING ramp rather than jump. *)
C17_IdleEnvelope ==
    [][M4IdleStaysInRange /\ M4IdleRampsUnlessInstant
       /\ M4IdleRestoredByRamp]_vars

(* the envelope without the transitions that restore idle *)
C17_RampsUnlessInstant ==
    [][M4IdleStaysInRange /\ M4IdleRampsUnlessInstant]_vars

(* C18: set_idle_target_volume is idempotent: a second call with the same *)
(* volume and the same instant flag leaves idle_target_volume,             *)
(* idle_current_volume and idle_is_fading (and the rest of the sound       *)
(* manager) as the first call left them.                                   *)
C18_Idempotent ==
    \A target_volume \in IdleVolumes, instant \in BOOLEAN :
        LET once == M4SoundManager_set_idle_target_volume(
                        m4sm, target_volume, instant)
            twice == M4SoundManager_set_idle_target_volume(
                         once, target_volume, instant)
        IN  /\ twice.idle_target_volume = once.idle_target_volume
            /\ twice.idle_current_volume = once.idle_current_volume
            /\ twice.idle_is_fading = once.idle_is_fading
            /\ twice = once

(* a call without instant has moved the target and a fade toward it is *)
(* under way, some steps from either end                                *)
C18_Witness ==
    /\ m4sm.idle_is_fading
    /\ m4sm.idle_target_volume = 1000
    /\ m4sm.idle_current_volume > 165
    /\ m4sm.idle_current_volume < 700

(* C19: Scenario A.  The blip fed to the M4 idling outside lockout starts  *)
(* exactly one staged-rev clip; the state goes IDLING -> PLAYFUL_REV ->    *)
(* IDLING; the idle target is 0.15 while the rev voice is busy and 0.7     *)
(* whenever it is not.                                                     *)
C19_ScenarioA ==
    /\ env.revs <= 1
    /\ env.trail \in {<< "IDLING" >>, << "IDLING", "PLAYFUL_REV" >>,
                      << "IDLING", "PLAYFUL_REV", "IDLING" >>}
    /\ IF Busy(m4sm.channel_staged_rev)
       THEN /\ m4.state = "PLAYFUL_REV"
            /\ m4sm.idle_target_volume = M4_LOW_IDLE_VOLUME_DURING_SFX
       ELSE /\ m4.state = "IDLING"
            /\ m4sm.idle_target_volume = M4_NORMAL_IDLE_VOLUME
    /\ env.clock >= ScenarioEnd
       => /\ env.revs = 1
          /\ env.trail = << "IDLING", "PLAYFUL_REV", "IDLING" >>

(* the blip is over: one clip has played, the M4 is back in IDLING and the *)
(* idle volume has come back up to 0.7                                     *)
C19_Witness ==
    /\ env.revs = 1
    /\ env.trail = << "IDLING", "PLAYFUL_REV", "IDLING" >>
    /\ ~Busy(m4sm.channel_staged_rev)
    /\ m4sm.idle_current_volume = M4_NORMAL_IDLE_VOLUME
    /\ ~m4sm.idle_is_fading

(* the idle volume on its way down while the clip plays *)
C19_Ducked ==
    /\ Busy(m4sm.channel_staged_rev)
    /\ m4sm.channel_staged_rev.sound = "rev_stage1"
    /\ m4sm.idle_current_volume = M4_LOW_IDLE_VOLUME_DURING_SFX

(* the calibrated samples are in [0,1], readings at or below the minimum *)
(* are 0 and at or above the maximum 1, and the smoothed throttle is in    *)
(* [0,1]                                                                   *)
ThrottleInUnitRange ==
    /\ \A i \in DOMAIN env.window : FloatLeq(env.window[i], FloatOne)
    /\ env.adc <= MIN_ADC_VALUE
       => env.window[Len(env.window)] = FloatZero
    /\ env.adc >= MAX_ADC_VALUE
       => env.window[Len(env.window)] = FloatOne
    /\ FloatLeq(env.smoothed, FloatOne)
    /\ \A i \in DOMAIN env.window :
          sys.throttle_buffer[i] \in 0..1000

(* the smoothed throttle is between the least and the greatest sample of *)
(* the window                                                            *)
SmoothedWithinWindow ==
    /\ \E i \in DOMAIN env.window : FloatLeq(env.window[i], env.smoothed)
    /\ \E i \in DOMAIN env.window : FloatLeq(env.smoothed, env.window[i])

(* C20: the calibrated sample is in [0,1] for every raw device value     *)
(* (0 at or below the minimum, 1 at or above the maximum), and the       *)
(* smoothed throttle, the mean of the last 5 samples, is between the     *)
(* minimum and the maximum of the samples in the window and in [0,1].    *)
C20_ThrottleConditioned == ThrottleInUnitRange /\ SmoothedWithinWindow

(* the part of C20 about [0,1] *)
C20_InUnitRange == ThrottleInUnitRange

---------------------------------------------------------------------------
(* Properties of the M4 state machine.                                     *)

(* the acceleration clip is scheduled and has not started yet *)
M4AccelClipPending(s) ==
    \E i \in DOMAIN s.pending_offset_sounds :
        s.pending_offset_sounds[i].sound_key = "accel_gears"

(* the acceleration clip sounds on a long-sequence voice *)
M4AccelClipSounding(s) ==
    "accel_gears" \in {s.channel_long_A.sound, s.channel_long_B.sound}

(* C21: the M4 goes from ACCELERATING to CRUISING only in an iteration     *)
(* that leaves no acceleration clip waiting for its deferred start or      *)
(* still sounding; with the throttle seen by the M4 at or above 0.90 the   *)
(* state stays ACCELERATING while the acceleration clip is waiting for its *)
(* deferred start.                                                         *)
C21_CruisingAfterAccelClip ==
    [][/\ (m4.state = "ACCELERATING" /\ m4'.state = "CRUISING")
          => /\ ~M4AccelClipPending(m4sm')
             /\ ~M4AccelClipSounding(m4sm')
       /\ (/\ m4.state = "ACCELERATING"
           /\ m4'.current_throttle >= 900
           /\ M4AccelClipPending(m4sm'))
          => m4'.state = "ACCELERATING"]_vars

(* the part of C21 that holds: CRUISING is not entered from ACCELERATING   *)
(* while a long-sequence voice is busy, and below 0.90 it is not entered   *)
M4CruisesOnlyWhenLongVoicesSilent ==
    [][(m4.state = "ACCELERATING" /\ m4'.state = "CRUISING")
          => /\ m4'.current_throttle >= 900
             /\ ~Busy(AgeChannel(m4sm.channel_long_A, Dt))
             /\ ~Busy(AgeChannel(m4sm.channel_long_B, Dt))]_vars

(* LAUNCH_HOLD is entered in the step *)
M4EntersLaunchHold == m4.state # "LAUNCH_HOLD" /\ m4'.state = "LAUNCH_HOLD"

(* LAUNCH_HOLD is entered only after 0.5 s in the launch band over         *)
(* consecutive iterations in IDLING or PLAYFUL_REV                         *)
M4LaunchHoldAfterTimeInBand ==
    M4EntersLaunchHold
        => /\ M4InLcRange(m4'.current_throttle)
           /\ env'.band >= M4_LAUNCH_CONTROL_HOLD_DURATION

(* LAUNCH_HOLD is entered only with launch control not active and no       *)
(* gesture sound in progress                                               *)
M4LaunchHoldUncontested ==
    M4EntersLaunchHold
        => /\ ~M4SoundManager_is_launch_control_active(m4sm)
           /\ ~Busy(AgeChannel(m4sm.channel_staged_rev, Dt))
           /\ m4.state # "PLAYFUL_REV"

(* an iteration that updates the M4 with the throttle outside the launch   *)
(* band leaves the timer of the band at zero                               *)
M4LaunchTimerRestarts ==
    (M4Updated(World') /\ ~M4InLcRange(Smoothed(sys'.throttle_buffer)))
        => m4'.time_in_launch_control_range = 0

(* C22: the M4 enters LAUNCH_HOLD only in an iteration in which the        *)
(* throttle it sees is strictly inside (0.55, 0.85) and has been so over   *)
(* consecutive iterations in IDLING or PLAYFUL_REV for at least 0.5 s,     *)
(* launch control is not active, no staged rev plays and the state is not  *)
(* PLAYFUL_REV; the timer of the band is zero after every iteration with   *)
(* the throttle outside the band.                                          *)
C22_LaunchHoldEntry ==
    [][/\ M4LaunchHoldAfterTimeInBand
       /\ M4LaunchHoldUncontested
       /\ M4LaunchTimerRestarts]_vars

(* the part of C22 about the time in the band alone *)
M4LaunchHoldNeverEarly == [][M4LaunchHoldAfterTimeInBand]_vars

(* what the code checks on entry: its own timer, which is not reset while  *)
(* the M4 is off, starting or not selected                                 *)
M4LaunchHoldByTimer ==
    [][M4EntersLaunchHold
          => /\ m4.state \in {"IDLING", "PLAYFUL_REV"}
             /\ M4InLcRange(m4'.current_throttle)
             /\ m4.time_in_launch_control_range + Dt
                    >= M4_LAUNCH_CONTROL_HOLD_DURATION]_vars

(* is_launch_control_active() as the state branches of the iteration from *)
(* the current state see it, once update() of the sound manager has run   *)
M4LaunchSoundsSeen ==
    M4SoundManager_is_launch_control_active(
        M4SoundManager_update(M4SoundManager_elapse(m4sm, Dt)))

C23_SoundsOver ==
    /\ m4.state = "IDLING"
    /\ m4.time_in_idle = 0
    /\ M4InLcRange(m4.current_throttle)
    /\ "launch_control_hold_loop" \notin m4sm.sounds
    /\ "launch_control_engage" \in m4sm.sounds
    /\ Len(m4.throttle_history) = 2
    /\ M4InLcRange(m4.throttle_history[1])

(* C24: an iteration that finds the M4 in DECELERATING with the throttle   *)
(* at or above 0.85 leaves the state ACCELERATING, whether a long-sequence *)
(* voice is busy or not; the state goes from DECELERATING to IDLING only   *)
(* in an iteration with the throttle below 0.85 that leaves no             *)
(* long-sequence voice busy.                                               *)
C24_DeceleratingExit ==
    [][(M4Updated(World') /\ m4.state = "DECELERATING")
          => LET thr == Smoothed(sys'.throttle_buffer)
             IN  /\ thr >= 850 => m4'.state = "ACCELERATING"
                 /\ m4'.state = "IDLING"
                    => /\ thr < 850
                       /\ ~M4SoundManager_is_long_sequence_busy(m4sm')
                 /\ m4'.state \in {"DECELERATING", "ACCELERATING",
                                   "IDLING"}]_vars

(* the M4 accelerates again while the deceleration clip is still heard *)
C24_Witness ==
    /\ m4.state = "ACCELERATING"
    /\ m4.current_throttle >= 850
    /\ M4ActiveLong(m4sm).sound = "decel_downshifts"
    /\ M4AccelClipPending(m4sm)

(* the M4 is back in IDLING from DECELERATING *)
C24_BackToIdle ==
    /\ m4.state = "IDLING"
    /\ m4.time_in_idle = 0
    /\ m4.played_full_accel_sequence_recently
    /\ m4.current_throttle < 850

---------------------------------------------------------------------------
(* Properties of the rev gestures of the three cars.                       *)

(* a gesture window of the selected car is open *)
WindowOpen ==
    IF sys.current_car = "M4" THEN m4.in_potential_gesture
    ELSE IF sys.current_car = "Supra" THEN supra.in_potential_rev_gesture
    ELSE hellcat.in_simple_rev_gesture

(* the gesture window of the selected car: how long it has been open and   *)
(* how long it may stay open                                               *)
WindowAge ==
    IF sys.current_car = "M4" THEN m4.gesture_start_time
    ELSE IF sys.current_car = "Supra" THEN supra.rev_gesture_start_time
    ELSE hellcat.rev_gesture_start_time

WindowLimit ==
    IF sys.current_car = "M4" THEN M4_GESTURE_WINDOW_TIME
    ELSE IF sys.current_car = "Supra" THEN SUPRA_REV_GESTURE_WINDOW_TIME
    ELSE HELLCAT_REV_GESTURE_TIMEOUT

(* the recorded peak of the window *)
WindowPeak ==
    IF sys.current_car = "M4" THEN m4.peak_throttle_in_gesture
    ELSE IF sys.current_car = "Supra" THEN supra.peak_throttle_in_rev_gesture
    ELSE hellcat.rev_peak_throttle

(* the step is an iteration that runs the gesture check of the selected    *)
(* car: no switch is in progress and the car is found in a state whose     *)
(* branch calls it (the branch of the M4 returns before the call when it   *)
(* engages launch control)                                                 *)
GestureChecked ==
    /\ ~sys.switching_cars
    /\ ~sys'.switching_cars
    /\ EngineState(World, sys.current_car) \in {"IDLING", "PLAYFUL_REV", "IDLE"}
    /\ sys.current_car = "M4" => m4'.state # "LAUNCH_HOLD"

(* the throttle the gesture check of the selected car has just read is at  *)
(* its near-idle level or below                                            *)
NearIdle ==
    IF sys.current_car = "M4"
    THEN 2 * m4.current_throttle <= 3 * THROTTLE_DEADZONE_LOW
    ELSE IF sys.current_car = "Supra"
    THEN 10 * supra.raw_throttle <= 18 * THROTTLE_DEADZONE_LOW
    ELSE hellcat.raw_throttle <= 2 * HELLCAT_THROTTLE_IDLE_THRESHOLD

(* a rev clip of the selected car is started by the gesture check of the   *)
(* step: the Hellcat also starts rev clips from its queue                  *)
RevStartedByGesture ==
    IF sys.current_car = "Hellcat"
    THEN \/ Len(hellcatsm'.rev_queue) > Len(hellcatsm.rev_queue)
         \/ /\ RevStarted(World')
            /\ Len(hellcatsm'.rev_queue) = Len(hellcatsm.rev_queue)
    ELSE RevStarted(World')

(* C26: a gesture check that finds the window open for more than the      *)
(* window duration (0.75 s for the M4 and the Supra, 1.0 s for the        *)
(* Hellcat) closes it, starts no rev clip and does not set the lockout;   *)
(* a gesture resolves only in an iteration whose throttle is at the       *)
(* near-idle level or below, so none does while the throttle stays above  *)
(* it.                                                                    *)
C26_GestureTimeout ==
    [][/\ (GestureChecked /\ WindowOpen /\ WindowAge + Dt > WindowLimit)
          => /\ ~WindowOpen'
             /\ ~GestureResolved(World')
             /\ ~RevStartedByGesture
       /\ (GestureChecked /\ (GestureResolved(World') \/ RevStartedByGesture))
          => NearIdle']_vars

(* the window of the M4 has been open for the window duration and the      *)
(* throttle is still up: the next gesture check times it out               *)
C26_Witness ==
    /\ sys.current_car = "M4"
    /\ ~sys.switching_cars
    /\ m4.state = "IDLING"
    /\ WindowOpen
    /\ WindowAge = WindowLimit
    /\ ~NearIdle
    /\ LastRaw > 0

(* the same for the Supra and for the Hellcat *)
C26_SupraTimeout ==
    /\ sys.current_car = "Supra"
    /\ ~sys.switching_cars
    /\ supra.state = "IDLE"
    /\ WindowOpen
    /\ WindowAge = WindowLimit
    /\ ~NearIdle
    /\ LastRaw > 0
C26_HellcatTimeout ==
    /\ sys.current_car = "Hellcat"
    /\ ~sys.switching_cars
    /\ hellcat.state = "IDLE"
    /\ WindowOpen
    /\ WindowAge = WindowLimit
    /\ ~NearIdle
    /\ LastRaw > 0

(* the least peak that makes a rise and fall a gesture is above this *)
WindowThreshold ==
    IF sys.current_car = "M4" THEN THROTTLE_DEADZONE_LOW + 20
    ELSE IF sys.current_car = "Supra" THEN THROTTLE_DEADZONE_LOW + 40
    ELSE 80

IdleTarget ==
    IF sys.current_car = "M4" THEN m4sm.idle_target_volume
    ELSE IF sys.current_car = "Supra" THEN suprasm.idle_target_volume
    ELSE hellcatsm.idle_target_volume

NormalIdle ==
    IF sys.current_car = "M4" THEN M4_NORMAL_IDLE_VOLUME
    ELSE IF sys.current_car = "Supra" THEN SUPRA_NORMAL_IDLE_VOLUME
    ELSE HELLCAT_NORMAL_IDLE_VOLUME

SelectedState == EngineState(World, sys.current_car)

C27_M4Noise ==
    /\ sys.current_car = "M4"
    /\ m4.state = "IDLING"
    /\ WindowOpen
    /\ WindowPeak <= WindowThreshold
    /\ m4.current_throttle = 0

(* a peak just above the threshold makes a gesture *)
C27_M4Gesture ==
    /\ sys.current_car = "M4"
    /\ GestureResolved(World)
    /\ WindowPeak <= THROTTLE_DEADZONE_LOW + 40
C27_SupraGesture ==
    /\ sys.current_car = "Supra"
    /\ GestureResolved(World)
    /\ WindowPeak = 100

(* the window of the Hellcat opens above 0.10 only: its recorded peak is   *)
(* never at or below 0.08                                                  *)
HellcatPeakAboveThreshold ==
    hellcat.in_simple_rev_gesture => hellcat.rev_peak_throttle > 100

---------------------------------------------------------------------------
(* Properties of the engine start of the three cars.                       *)

(* the step is an iteration that updates the engine of the selected car;   *)
(* the state it finds it in: ENGINE_OFF when it completes a switch         *)
CarUpdated == ~sys'.switching_cars
StateFound ==
    IF sys.switching_cars THEN "ENGINE_OFF"
    ELSE EngineState(World, sys'.current_car)

(* the throttle the engine of the selected car is given: the M4 the        *)
(* smoothed one, the Supra and the Hellcat the raw one                     *)
ThrottleGiven ==
    IF sys.current_car = "M4" THEN Smoothed(sys.throttle_buffer) ELSE LastRaw

(* the throttle kept by the engine of the selected car is zero *)
StoredThrottleZero ==
    IF sys.current_car = "M4" THEN m4.current_throttle = 0
    ELSE IF sys.current_car = "Supra"
    THEN supra.raw_throttle = 0 /\ supra.ema_throttle = 0
    ELSE hellcat.raw_throttle = 0 /\ hellcat.smoothed_throttle = 0

(* the voice that carries the starter clip of the car *)
StarterVoice(car) ==
    IF car = "M4" THEN m4sm.channel_turbo_limiter_sfx
    ELSE IF car = "Supra" THEN suprasm.channel_rev_sfx
    ELSE hellcatsm.channel_startup

(* C28: an iteration that finds the selected car in ENGINE_OFF leaves it   *)
(* there when the throttle is at most 0.10, and otherwise leaves it in     *)
(* STARTING with the throttle kept by the engine at zero; one that finds   *)
(* it in STARTING leaves it there while the starter voice is busy and      *)
(* otherwise leaves it in its idle state; neither starts a rev clip or     *)
(* resolves a gesture.                                                     *)
C28_EngineStart ==
    [][(CarUpdated /\ StateFound \in {"ENGINE_OFF", "STARTING"})
       => /\ StateFound = "ENGINE_OFF"
             => IF ThrottleGiven' > THROTTLE_DEADZONE_LOW + 50
                THEN SelectedState' = "STARTING" /\ StoredThrottleZero'
                ELSE SelectedState' = "ENGINE_OFF"
          /\ StateFound = "STARTING"
             => IF Busy(AgeChannel(StarterVoice(sys.current_car), Dt))
                THEN SelectedState' = "STARTING"
                ELSE SelectedState' =
                         IF sys.current_car = "M4" THEN "IDLING" ELSE "IDLE"
          /\ ~RevStarted(World')
          /\ ~GestureResolved(World')]_vars

(* the M4 has just gone to STARTING: its starter clip plays and it keeps   *)
(* a throttle of zero while the throttle it was given is above 0.10        *)
C28_Witness ==
    /\ sys.current_car = "M4"
    /\ m4.state = "STARTING"
    /\ m4.current_throttle = 0
    /\ ThrottleGiven > THROTTLE_DEADZONE_LOW + 50
    /\ m4sm.channel_turbo_limiter_sfx = Playing("starter", StarterLen)

(* the states C28 is about that its witness does not show: a car started   *)
(* without its starter clip, a car idling after its starter clip, and a    *)
(* car left off with the pedal at 0.10                                     *)
C28_StartedWithoutClip ==
    /\ SelectedState = "STARTING"
    /\ ~Busy(StarterVoice(sys.current_car))
    /\ sys.current_car = "Supra"
C28_IdleAfterStarter ==
    /\ SelectedState \in IdleStates
    /\ sys.current_car = "Hellcat"
    /\ "startup" \in hellcatsm.sounds
    /\ ~Busy(hellcatsm.channel_startup)
    /\ LastRaw > THROTTLE_DEADZONE_LOW + 50
C28_StaysOff ==
    /\ SelectedState = "ENGINE_OFF"
    /\ ThrottleGiven = THROTTLE_DEADZONE_LOW + 50

---------------------------------------------------------------------------
(* Properties of the simulated RPM of the M4 and of the Supra.             *)

(* the step is an iteration that updates the engine of the M4 or the Supra *)
RpmCarUpdated == CarUpdated /\ sys'.current_car \in {"M4", "Supra"}

SimulatedRpm(w, car) ==
    IF car = "M4" THEN w.m4.simulated_rpm ELSE w.supra.simulated_rpm
RpmIdle(car) == IF car = "M4" THEN M4_RPM_IDLE ELSE SUPRA_RPM_IDLE
RpmDecayPerTick(car) ==
    IF car = "M4" THEN (M4_RPM_DECAY_RATE_PER_SEC * Dt) \div 1000
    ELSE (SUPRA_RPM_DECAY_RATE_PER_SEC * Dt) \div 1000

(* what the update of the engine sees: whether the rev voice is busy, and  *)
(* the time since the last rev finish                                      *)
RevVoiceBusySeen(car) ==
    IF car = "M4" THEN Busy(AgeChannel(m4sm.channel_staged_rev, Dt))
    ELSE Busy(AgeChannel(suprasm.channel_rev_sfx, Dt))
SinceRevFinishSeen(car) ==
    IF car = "M4" THEN M4EngineSimulation_elapse(m4, Dt).last_rev_sound_finish_time
    ELSE SupraEngineSimulation_elapse(supra, Dt).last_rev_sound_finish_time

(* the peak of the rev stage whose clip was started in the iteration that  *)
(* led to w (0: none was started)                                          *)
StartedStagePeak(w, car) ==
    LET stages == IF car = "M4" THEN M4_REV_STAGES ELSE SUPRA_REV_STAGES
        started == IF car = "M4" THEN w.m4sm.started ELSE w.suprasm.started
        played == {i \in 1..4 : stages[i].key \in started}
    IN  IF played = {} THEN 0 ELSE stages[CHOOSE i \in played : TRUE].rpm_peak

(* no gesture resolved: the RPM did not increase *)
RpmFallsWithoutGesture ==
    LET car == sys'.current_car
    IN  ~GestureResolved(World')
        => SimulatedRpm(World', car) <= SimulatedRpm(World, car)

(* the rev voice not busy and the cooldown over: the RPM dropped by the    *)
(* decay of one tick, down to idle at most, and after 6 s it is at idle    *)
RpmDecaysLinearly ==
    LET car == sys'.current_car
        since == SinceRevFinishSeen(car)
    IN  (/\ ~RevVoiceBusySeen(car)
         /\ since > M4_RPM_DECAY_COOLDOWN_AFTER_REV
         /\ ~RevStarted(World'))
        => SimulatedRpm(World', car) =
             IF since > M4_RPM_RESET_TO_IDLE_THRESHOLD_TIME THEN RpmIdle(car)
             ELSE Max(RpmIdle(car),
                      SimulatedRpm(World, car) - RpmDecayPerTick(car))

(* a gesture resolved and a staged rev plays: the RPM is the peak of the   *)
(* stage, not below the RPM before                                         *)
RpmSetByRev ==
    LET car == sys'.current_car
    IN  (GestureResolved(World') /\ RevStarted(World'))
        => /\ SimulatedRpm(World', car) = StartedStagePeak(World', car)
           /\ SimulatedRpm(World', car) >= SimulatedRpm(World, car)

(* C29: in an iteration that updates the M4 or the Supra, the simulated    *)
(* RPM does not increase unless a gesture resolves; when the rev voice is  *)
(* not busy and more than 0.1 s has passed since the last rev finish it    *)
(* drops by rate * dt, stopping at idle, and is at idle once more than 6 s *)
(* have passed; when a gesture resolves and a staged rev plays it is set   *)
(* to the peak of that stage, which is not below the RPM before.           *)
C29_RpmModel ==
    [][RpmCarUpdated
       => /\ RpmFallsWithoutGesture
          /\ RpmDecaysLinearly
          /\ RpmSetByRev]_vars

(* the parts of C29 taken one at a time *)
C29_NoRiseWithoutGesture == [][RpmCarUpdated => RpmFallsWithoutGesture]_vars
C29_RevSetsPeak == [][RpmCarUpdated => RpmSetByRev]_vars
(* with the cooldown over and the rev voice not busy the RPM is idle after *)
(* 6 s, and before that it is either a decay step lower or at idle         *)
C29_DecayOrIdle ==
    [][RpmCarUpdated
       => LET car == sys'.current_car
              since == SinceRevFinishSeen(car)
          IN  (/\ ~RevVoiceBusySeen(car)
               /\ since > M4_RPM_DECAY_COOLDOWN_AFTER_REV
               /\ ~RevStarted(World'))
              => \/ SimulatedRpm(World', car) = RpmIdle(car)
                 \/ /\ since <= M4_RPM_RESET_TO_IDLE_THRESHOLD_TIME
                    /\ SimulatedRpm(World', car) =
                         SimulatedRpm(World, car) - RpmDecayPerTick(car)]_vars

---------------------------------------------------------------------------
(* Properties of the selection of the rev stage (M4 and Supra).            *)

(* play_staged_rev was called twice, each time with the rev voice free *)
CalledTwice == env.before.stage # -1 /\ env.last.stage # -1

(* with the same current RPM, the call with the higher peak did not play   *)
(* a lower stage                                                           *)
C30_MonotoneInPeak ==
    (/\ CalledTwice
     /\ env.before.rpm = env.last.rpm
     /\ env.before.peak <= env.last.peak)
    => env.before.stage <= env.last.stage

(* with the same peak, the call with the lower current RPM did not play a  *)
(* lower stage                                                             *)
C30_AntitoneInRpm ==
    (/\ CalledTwice
     /\ env.before.peak = env.last.peak
     /\ env.before.rpm <= env.last.rpm)
    => env.before.stage >= env.last.stage

(* C30: of two calls of play_staged_rev with the rev voice free, of the M4 *)
(* or of the Supra, with the same current RPM the one with the higher      *)
(* gesture peak plays a stage at least as intense, and with the same       *)
(* gesture peak the one with the lower current RPM plays a stage at least  *)
(* as intense (a call that plays nothing counts as the least intense).     *)
C30_StagedRevMonotone == C30_MonotoneInPeak /\ C30_AntitoneInRpm

(* what the selection does with the current RPM: with the same peak, the   *)
(* call with the higher current RPM plays nothing or a stage at least as   *)
(* high                                                                    *)
C30_HigherRpmHigherStage ==
    (/\ CalledTwice
     /\ env.before.peak = env.last.peak
     /\ env.before.rpm <= env.last.rpm)
    => (env.last.stage = 0 \/ env.before.stage <= env.last.stage)

(* two calls with one peak: the lower current RPM played the lower stage *)
C30_LowerRpmLowerStage ==
    /\ CalledTwice
    /\ env.before.peak = env.last.peak
    /\ env.before.rpm < env.last.rpm
    /\ env.before.stage > 0
    /\ env.before.stage < env.last.stage

---------------------------------------------------------------------------
(* Properties of the shifts of the Hellcat.                                *)

(* the step is an iteration that updates the Hellcat in DRIVING and        *)
(* changes its gear                                                        *)
HellcatShifts ==
    /\ sys.current_car = "Hellcat"
    /\ ~sys.switching_cars
    /\ ~sys'.switching_cars
    /\ hellcat.state = "DRIVING"
    /\ hellcat'.simulated_gear # hellcat.simulated_gear

(* the RPM the shift finds: the RPM of the iteration before, moved by the  *)
(* physics of this one                                                     *)
RpmAtShift ==
    HellcatDrivingRpm(
        [hellcat EXCEPT !.smoothed_throttle = hellcat'.smoothed_throttle], Dt)

C31_Downshifted ==
    /\ hellcat.state = "DRIVING"
    /\ "downshift" \in hellcatsm.started
    /\ hellcat.simulated_gear = 2
    /\ hellcat.simulated_rpm > HELLCAT_IDLE_RPM + 400 + 150 * 2
    /\ hellcat.last_shift_time = 0

(* the Hellcat has just shifted down from fifth gear, the rev match cut    *)
(* at three quarters of the redline                                        *)
C31_RevMatchCapped ==
    /\ hellcat.state = "DRIVING"
    /\ "downshift" \in hellcatsm.started
    /\ hellcat.simulated_gear = 4
    /\ hellcat.simulated_rpm = (3 * HELLCAT_REDLINE_RPM) \div 4
    /\ hellcat.last_shift_time = 0

---------------------------------------------------------------------------
(* Properties of the cross-fades of the two-voice pairs.                   *)

(* a cross-fade of the driving voices of the Supra was started in the step *)
SupraCrossfadeStarted ==
    suprasm'.transitioning_driving_sound /\ suprasm'.transition_start_time = 0
(* one is in progress when the step begins, and the time since its start   *)
(* as the update of the step sees it                                       *)
SupraCrossfadeInProgress ==
    /\ suprasm.transitioning_driving_sound
    /\ SupraSoundManager_elapse(suprasm, Dt).transition_start_time
           < SUPRA_CROSSFADE_DURATION_MS
(* the step is an iteration that updates the Supra *)
SupraUpdated == sys'.current_car = "Supra" /\ ~sys'.switching_cars
(* the volume of the incoming voice *)
SupraIncomingVolume(s) == s.driving_volume[s.active_driving_channel]
SupraIncomingVoice(s) ==
    IF s.active_driving_channel = "A"
    THEN s.channel_driving_A ELSE s.channel_driving_B

(* a clip was put on a driving voice of the Supra in the step *)
SupraDrivingClipStarted ==
    suprasm'.started \cap (SUPRA_PULL_KEYS \cup SUPRA_CRUISE_KEYS) # {}

(* the same for the long-sequence voices of the M4 *)
M4CrossfadeStarted ==
    m4sm'.transitioning_long_sound /\ m4sm'.transition_start_time = 0
M4CrossfadeInProgress ==
    /\ m4sm.transitioning_long_sound
    /\ M4SoundManager_elapse(m4sm, Dt).transition_start_time
           < M4_CROSSFADE_DURATION_MS

(* C32: no cross-fade of the driving voices of the Supra or of the long    *)
(* voices of the M4 is started while one of the same pair is in progress;  *)
(* a cross-fade starts with the incoming voice at volume 0; while it is in *)
(* progress the incoming voice stays the same and its volume does not      *)
(* decrease nor exceed the full volume; the update at which the time since *)
(* the start has reached the duration clears the flag and leaves a voice   *)
(* that still plays at full volume, and no earlier update clears it.       *)
C32_Crossfade ==
    [][/\ ~(SupraCrossfadeInProgress /\ SupraCrossfadeStarted)
       /\ ~(M4CrossfadeInProgress /\ M4CrossfadeStarted)
       /\ SupraCrossfadeStarted => SupraIncomingVolume(suprasm') = 0
       /\ (suprasm.transitioning_driving_sound
             /\ suprasm'.transitioning_driving_sound)
          => /\ suprasm'.active_driving_channel = suprasm.active_driving_channel
             /\ SupraIncomingVolume(suprasm') >= SupraIncomingVolume(suprasm)
             /\ SupraIncomingVolume(suprasm') <= MASTER_ENGINE_VOL
       /\ (suprasm.transitioning_driving_sound /\ SupraUpdated)
          => IF SupraCrossfadeInProgress
             THEN suprasm'.transitioning_driving_sound
             ELSE /\ ~suprasm'.transitioning_driving_sound
                  /\ SupraDrivingClipStarted
                     \/ /\ suprasm'.active_driving_channel
                               = suprasm.active_driving_channel
                        /\ SupraIncomingVolume(suprasm')
                               >= SupraIncomingVolume(suprasm)
                        /\ Busy(SupraIncomingVoice(suprasm'))
                           => SupraIncomingVolume(suprasm')
                                  = MASTER_ENGINE_VOL]_vars

(* a cross-fade of the Supra half way: the incoming voice plays at half    *)
(* the full volume and the outgoing voice is still heard                   *)
C32_Witness ==
    /\ suprasm.transitioning_driving_sound
    /\ 2 * suprasm.transition_start_time = SUPRA_CROSSFADE_DURATION_MS
    /\ Busy(SupraIncomingVoice(suprasm))
    /\ 2 * SupraIncomingVolume(suprasm) = MASTER_ENGINE_VOL
    /\ Busy(suprasm.channel_driving_A) /\ Busy(suprasm.channel_driving_B)

(* a cross-fade of the Supra has ended with the incoming voice still       *)
(* playing, at full volume                                                 *)
C32_FadedIn ==
    /\ ~suprasm.transitioning_driving_sound
    /\ suprasm.transition_start_time = SUPRA_CROSSFADE_DURATION_MS
    /\ Busy(SupraIncomingVoice(suprasm))
    /\ SupraIncomingVoice(suprasm).rem = SupraPullLen - SUPRA_CROSSFADE_DURATION_MS
    /\ SupraIncomingVolume(suprasm) = MASTER_ENGINE_VOL

(* the long voices of the M4 are never cross-faded: every call of          *)
(* play_long_sequence passes transition_from_other = False                 *)
M4NeverCrossfades == ~m4sm.transitioning_long_sound

---------------------------------------------------------------------------
(* Properties of the PRE_ACCEL state of the Supra                          *)

(* the pull clip play_driving_sound selects for a range of the throttle *)
SupraPullFor(throttle_range) ==
    IF throttle_range = "light" THEN "light_pull"
    ELSE IF throttle_range = "aggressive" THEN "aggressive_push"
    ELSE "violent_pull"

(* the range of the smoothed throttle the iteration computes *)
SupraCommitRange == SupraEngineSimulation_get_throttle_range(supra'.ema_throttle)

(* the driving clips the iteration starts *)
SupraDrivingStarted == suprasm'.started \cap (SUPRA_PULL_KEYS \cup SUPRA_CRUISE_KEYS)

(* the time the Supra has been in its state when the iteration runs *)
SupraTimeInState == supra.state_start_time + Dt

(* C33: the Supra goes from IDLE to ACCELERATING only through PRE_ACCEL;   *)
(* an iteration in PRE_ACCEL stays there while less than 0.15 s have been  *)
(* spent in it; the first iteration after that returns to IDLE with the    *)
(* idle target restored and no driving clip started if the range of the    *)
(* smoothed throttle is then idle, and otherwise enters ACCELERATING       *)
(* starting no other driving clip than the pull clip of the range the      *)
(* smoothed throttle has on that iteration                                 *)
C33_PreAccel ==
    [][/\ supra.state = "IDLE" => supra'.state # "ACCELERATING"
       /\ (supra.state = "PRE_ACCEL" /\ SupraUpdated)
          => IF SupraTimeInState < SUPRA_PRE_ACCEL_DELAY
             THEN supra'.state = "PRE_ACCEL" /\ SupraDrivingStarted = {}
             ELSE IF SupraCommitRange = "idle"
             THEN /\ supra'.state = "IDLE"
                  /\ suprasm'.idle_target_volume = SUPRA_NORMAL_IDLE_VOLUME
                  /\ SupraDrivingStarted = {}
             ELSE /\ supra'.state = "ACCELERATING"
                  /\ SupraDrivingStarted \subseteq {SupraPullFor(SupraCommitRange)}
                  /\ SupraDrivingStarted # {}
                     => supra'.current_playing_sound_range = SupraCommitRange]_vars

(* the Supra has just committed to ACCELERATING with the aggressive push,  *)
(* the pedal released for the last two iterations of the wait: a smoothed  *)
(* throttle still above 356 after two samples of 0 was above 610, in the   *)
(* violent range, when PRE_ACCEL was entered two iterations before them    *)
C33_Witness ==
    /\ sys.current_car = "Supra"
    /\ supra.state = "ACCELERATING"
    /\ supra.state_start_time = 0
    /\ suprasm.started = {"aggressive_push"}
    /\ supra.current_playing_sound_range = "aggressive"
    /\ supra.throttle_history = << 0, 0 >>
    /\ supra.ema_throttle > 356

(* the Supra has bailed out of PRE_ACCEL: back in IDLE with no driving     *)
(* voice playing, SUPRA_PRE_ACCEL_DELAY after it entered PRE_ACCEL         *)
C33_Bailed ==
    /\ sys.current_car = "Supra"
    /\ supra.state = "IDLE"
    /\ supra.state_start_time = SUPRA_PRE_ACCEL_DELAY
    /\ supra.raw_throttle = 0
    /\ suprasm.idle_target_volume = SUPRA_NORMAL_IDLE_VOLUME
    /\ supra.ema_throttle > 0

---------------------------------------------------------------------------
(* Properties of the rev clips of the Hellcat                              *)

(* C34: an iteration starts a rev clip of the Hellcat, played at once or   *)
(* taken from the rev queue, only with the Hellcat in IDLE: not in         *)
(* DRIVING, ENGINE_OFF or STARTING, neither before nor after the iteration *)
C34_RevOnlyInIdle ==
    [][HellcatRevsStarted # {}
       => hellcat.state = "IDLE" \/ hellcat'.state = "IDLE"]_vars

(* no iteration starts a rev clip of the Hellcat with its engine off or    *)
(* starting                                                                *)
C34_NoRevWhileOff ==
    [][HellcatRevsStarted # {}
       => hellcat.state \notin {"ENGINE_OFF", "STARTING"}]_vars

(* a rev clip started with nothing queued is started by the IDLE handler *)
C34_PlayedAtOnceInIdle ==
    [][(HellcatRevsStarted # {} /\ hellcatsm.rev_queue = << >>)
       => hellcat.state = "IDLE"]_vars

---------------------------------------------------------------------------
(* Properties of the mode button                                           *)

(* the iteration finds the button released after finding it pressed *)
ButtonReleased == env.pin /\ ~env'.pin

(* the time from the iteration that found the button pressed to this one *)
PressDuration == env.down * Dt

(* C35: the iteration that finds the button released after a press held   *)
(* for a duration d produces exactly one outcome: for d >= 2.0 s           *)
(* running_script is cleared and no switch is requested, for               *)
(* 0.1 s <= d < 2.0 s one switch is requested and the script keeps         *)
(* running, for d < 0.1 s neither happens; every other iteration, with     *)
(* the button held or left alone, requests no switch and keeps the script  *)
(* running                                                                 *)
C35_ButtonOutcome ==
    [][IF ButtonReleased
       THEN IF PressDuration >= BUTTON_LONG_PRESS_TIME
            THEN ~env'.running_script /\ ~env'.switch_requested
            ELSE IF PressDuration >= BUTTON_DEBOUNCE_TIME
            THEN /\ env'.running_script /\ env'.switch_requested
                 /\ ~sys.switching_cars => sys'.switching_cars
            ELSE env'.running_script /\ ~env'.switch_requested
       ELSE /\ ~env'.switch_requested
            /\ env'.running_script = env.running_script
            /\ sys'.switching_cars => sys.switching_cars]_vars

(* a second press, released after 0.1 s while the switch the first press   *)
(* asked for is under way, has requested one more switch                   *)
C35_Witness ==
    /\ env.switch_requested
    /\ env.running_script
    /\ env.presses = 0
    /\ sys.switching_cars
    /\ sys.switch_start_time > 0

(* a press held for 2.0 s has ended the script without a switch *)
C35_Shutdown ==
    /\ ~env.running_script /\ ~env.switch_requested /\ ~env.pin
    /\ ~sys.switching_cars

(* a press held for less than 0.1 s has been ignored *)
C35_Bounce ==
    /\ env.running_script /\ ~env.pin /\ env.presses = MaxButtonPresses - 1
    /\ ~sys.switching_cars /\ sys.current_car = "M4"
    /\ env.button_pressed_time = NoTime

---------------------------------------------------------------------------
(* Properties of the launch control of the M4                              *)

(* the step is an iteration that updates the M4 *)
M4UpdatedInStep == sys'.current_car = "M4" /\ ~sys'.switching_cars

(* C36: after every iteration that updates the M4 its state is LAUNCH_HOLD *)
(* exactly if the sound manager reports launch control active; and         *)
(* waiting_for_launch_hold_loop is never set with                          *)
(* launch_control_sounds_active clear                                      *)
C36_LaunchHoldAgrees ==
    [][/\ M4UpdatedInStep
          => (m4'.state = "LAUNCH_HOLD"
                 <=> M4SoundManager_is_launch_control_active(m4sm'))
       /\ m4sm'.waiting_for_launch_hold_loop
          => m4sm'.launch_control_sounds_active]_vars

(* launch control has just been given up for want of the hold loop: the   *)
(* M4 is back in IDLING with the pedal steady in the launch band           *)
C36_GivenUp ==
    /\ sys.current_car = "M4" /\ ~sys.switching_cars
    /\ "launch_control_engage" \in m4sm.sounds
    /\ "launch_control_hold_loop" \notin m4sm.sounds
    /\ m4.state = "IDLING"
    /\ m4.time_in_launch_control_range = 0
    /\ m4.current_throttle > M4_LAUNCH_CONTROL_THROTTLE_MIN
    /\ m4.current_throttle < M4_LAUNCH_CONTROL_THROTTLE_MAX
    /\ ~M4SoundManager_is_launch_control_active(m4sm)

(* launch control is engaged and the engage clip still plays *)
C36_Witness ==
    /\ sys.current_car = "M4" /\ ~sys.switching_cars
    /\ m4.state = "LAUNCH_HOLD"
    /\ m4sm.waiting_for_launch_hold_loop
    /\ m4sm.launch_control_sounds_active
    /\ Busy(m4sm.channel_turbo_limiter_sfx)

---------------------------------------------------------------------------
(* Properties of the M4 under a constant throttle                          *)

(* C37: with the pedal held at one level, no two iterations in a row take  *)
(* the M4 from ACCELERATING to DECELERATING and back to ACCELERATING with  *)
(* the throttle it is given the same on both                               *)
C37_NoAlternation ==
    [][~(/\ env.before = "ACCELERATING" /\ env.steady
         /\ m4.state = "DECELERATING"
         /\ m4'.state = "ACCELERATING"
         /\ m4'.current_throttle = m4.current_throttle)]_vars

(* with the pedal held at one level the state of the M4 changes only       *)
(* finitely many times: from some iteration on it stays what it is         *)
C37_Settles == <>[][m4'.state = m4.state]_vars

(* held released, in the launch band or floored, the M4 settles *)
C37_SettlesElsewhere == env.level = 870 \/ <>[][m4'.state = m4.state]_vars

(* the pedal held at 0.87 from idle: the M4 rests in IDLING *)
C37_RestsInIdling ==
    /\ env.level = 870 /\ env.steady /\ env.before = "IDLING"
    /\ m4.state = "IDLING" /\ m4.current_throttle = 870

---------------------------------------------------------------------------
(* Properties of the Supra leaving IDLE                                    *)

(* the iteration takes the Supra from IDLE to PRE_ACCEL *)
SupraEntersPreAccel == supra.state = "IDLE" /\ supra'.state = "PRE_ACCEL"

(* the iteration finds the gesture window of the Supra open and closes it  *)
(* with the pedal where it was: the window has timed out                   *)
SupraWindowTimesOut ==
    /\ sys.current_car = "Supra"
    /\ supra.in_potential_rev_gesture /\ ~supra'.in_potential_rev_gesture
    /\ supra'.raw_throttle = supra.raw_throttle

(* C38: with the raw throttle held steady at or above 0.10 from idle, the  *)
(* Supra enters PRE_ACCEL no later than the iteration on which the gesture *)
(* window times out                                                        *)
C38_EntersAtTimeout ==
    [][(SupraWindowTimesOut /\ supra.raw_throttle >= 100)
       => supra'.state = "PRE_ACCEL"]_vars

(* the Supra does not leave IDLE for PRE_ACCEL on an iteration that leaves *)
(* a gesture window open, nor on one less than 0.3 s after a gesture was   *)
(* resolved with a rev                                                     *)
C38_NoEntryDuringGesture ==
    [][SupraEntersPreAccel
       => /\ ~supra'.in_potential_rev_gesture
          /\ supra'.rev_gesture_lockout_until_time
                 <= SUPRA_REV_RETRIGGER_LOCKOUT - 300]_vars

(* held steady above 0.10 plus the lag of the smoothing, the Supra does    *)
(* enter PRE_ACCEL on the iteration on which the window times out          *)
C38_EntersAtTimeoutAbove ==
    [][(SupraWindowTimesOut /\ supra.raw_throttle > 100)
       => supra'.state = "PRE_ACCEL"]_vars

(* the Supra has entered PRE_ACCEL 0.3 s after a rev, its lockout still    *)
(* running                                                                 *)
C38_EnteredAfterRev ==
    /\ sys.current_car = "Supra"
    /\ supra.state = "PRE_ACCEL" /\ supra.state_start_time = 0
    /\ supra.rev_gesture_lockout_until_time = SUPRA_REV_RETRIGGER_LOCKOUT - 300

(* the Supra has entered PRE_ACCEL on the time-out of the window *)
C38_EnteredAtTimeout ==
    /\ sys.current_car = "Supra"
    /\ supra.state = "PRE_ACCEL" /\ supra.state_start_time = 0
    /\ supra.rev_gesture_start_time > SUPRA_REV_GESTURE_WINDOW_TIME
    /\ supra.rev_gesture_start_time <= SUPRA_REV_GESTURE_WINDOW_TIME + Dt

---------------------------------------------------------------------------
(* Properties of the deferred clip starts of the M4                        *)

(* C39: at most one deferred start of a long-sequence clip is pending at   *)
(* any time                                                                *)
C39_AtMostOnePending == Len(m4sm.pending_offset_sounds) <= 1

(* the iteration takes the M4 out of ACCELERATING or CRUISING into         *)
(* DECELERATING, which calls stop_long_sequence, or completes a switch     *)
(* away from the M4, which calls stop_all_sounds                           *)
M4LongSequenceStopped ==
    \/ /\ M4UpdatedInStep
       /\ m4.state \in {"ACCELERATING", "CRUISING"}
       /\ m4'.state = "DECELERATING"
    \/ /\ sys.switching_cars /\ ~sys'.switching_cars
       /\ sys'.current_car = "Supra"

(* no deferred start is pending after stop_long_sequence or                *)
(* stop_all_sounds has run                                                 *)
C39_NonePendingAfterStop ==
    [][M4LongSequenceStopped => m4sm'.pending_offset_sounds = << >>]_vars

(* a deferred accel_gears clip has started on the long voice of the M4     *)
(* after stop_long_sequence, with the M4 in DECELERATING                   *)
C39_StartedAfterStop ==
    /\ sys.current_car = "M4" /\ ~sys.switching_cars
    /\ m4.state = "DECELERATING"
    /\ m4sm.started \cap M4_LONG_KEYS = {"accel_gears"}
    /\ m4sm.pending_offset_sounds = << >>

(* the iteration has completed a switch to the Hellcat, which resets it *)
HellcatReset ==
    sys.switching_cars /\ ~sys'.switching_cars /\ sys'.current_car = "Hellcat"

C16_Downshift ==
    "downshift" \in hellcatsm.started /\ hellcat.simulated_gear = 2
C16_ResetFromSecond ==
    /\ sys.current_car = "Hellcat" /\ hellcat.state = "ENGINE_OFF"
    /\ hellcat.simulated_gear = 1 /\ supra.state = "ENGINE_OFF"

(* with the pedal let go the loop is deterministic: the program is at rest *)
(* when one more iteration changes nothing, and then stays as it is        *)
AtRest == env.hold /\ MainLoopIteration(World, Dt, FALSE, 0) = World

(* C6: with the throttle held at 0 forever the selected car reaches its    *)
(* idle state (IDLING for the M4, IDLE for the Supra and the Hellcat): a   *)
(* state the program rests in with the pedal let go is an idle state.      *)
C6_RestsInIdle ==
    AtRest => EngineState(World, sys.current_car) \in IdleStates

(* the M4 and the Hellcat at rest with the pedal let go *)
M4AtRest == AtRest /\ sys.current_car = "M4"
HellcatAtRest == AtRest /\ sys.current_car = "Hellcat"

(* C9: while the lockout set by a resolved gesture runs (0.3 s for the M4, *)
(* 0.5 s for the Supra and the Hellcat) no gesture window is open and no   *)
(* second rev clip has been started since the gesture resolved.            *)
C9_LockoutHolds ==
    LockoutLeft(World) > 0 => ~WindowOpen /\ env.revs <= 1

(* a second blip rises while the lockout of the first still runs *)
C9_Witness ==
    /\ LockoutLeft(World) > 0
    /\ ~GestureResolved(World)
    /\ LastRaw > 2 * HELLCAT_THROTTLE_IDLE_THRESHOLD
    /\ sys.throttle_buffer[THROTTLE_SMOOTHING_WINDOW_SIZE - 1] = 0
    /\ sys.current_car = "Hellcat"

(* the states C9 is about that its witness does not show: a second blip    *)
(* during the lockout of the M4 and of the Supra, and a rev clip of the    *)
(* Hellcat started from its queue during a lockout                         *)
C9_M4SecondBlip ==
    /\ sys.current_car = "M4"
    /\ LockoutLeft(World) > 0
    /\ ~GestureResolved(World)
    /\ m4.current_throttle > THROTTLE_DEADZONE_LOW
    /\ m4.throttle_history[1] <= THROTTLE_DEADZONE_LOW
C9_SupraSecondBlip ==
    /\ sys.current_car = "Supra"
    /\ LockoutLeft(World) > 0
    /\ ~GestureResolved(World)
    /\ supra.raw_throttle > THROTTLE_DEADZONE_LOW
    /\ sys.throttle_buffer[THROTTLE_SMOOTHING_WINDOW_SIZE - 1] = 0
C9_QueuedRevStarted ==
    /\ sys.current_car = "Hellcat"
    /\ LockoutLeft(World) > 0
    /\ ~GestureResolved(World)
    /\ RevStarted(World)

=============================================================================
